---- MODULE Spec2Model ----
(***************************************************************************)
(* A model of the approval-gated execution of database mutations of the    *)
(* PostgreSQL AI agent: the approval-ticket manager, the transactional     *)
(* execution engine and the rollback logger of                             *)
(* src/tools/impact_execution.py, the approve/reject endpoints of          *)
(* src/main.py, and the two LangGraph workflows that drive them.           *)
(*                                                                         *)
(* Callers are separate processes (HTTP endpoint handlers, workflow runs,  *)
(* tool scripts) that share one Redis store and one PostgreSQL database.   *)
(* A single Redis command (GET, SETEX, DEL) and a single database step are *)
(* atomic; nothing else is: the code takes no lock and uses no conditional *)
(* write, so the commands of two callers interleave freely.  Any Redis     *)
(* command may fail (the store is unreachable at that moment).             *)
(*                                                                         *)
(* Time is the reading of the clock (datetime.utcnow) in ticks of a day,   *)
(* so the 24 hour ticket lifetime is one tick.                             *)
(***************************************************************************)
EXTENDS Integers, Sequences, FiniteSets, TLC

VARIABLES
    now,          \* the clock reading
    store,        \* Redis keys approval_request:<id> -> [req, ttl_at]
    rollbackLog,  \* Redis keys rollback_log:<id> that were written
    nextId,       \* number of ticket ids generated so far (uuid4 stand-in)
    commits,      \* per ticket: transactions of its statement that committed
    calls,        \* number of top-level calls started (bounds the run)
    call,         \* per caller: the tool call in flight and its local variables
    ret,          \* what the step just taken returned to its caller, if it returned
    wf,           \* per caller: the workflow run it is executing, if any
    analysis      \* the impact analysis of one statement, as far as it got

vars == <<now, store, rollbackLog, nextId, commits, calls, call, ret, wf,
          analysis>>

---------------------------------------------------------------------------
(* Bounds of the model *)

MaxTickets == 1
MaxTime == 2
MaxCalls == 4
MaxApproverCalls == 2
MaxPollApproverCalls == 1
MaxSeqCalls == 5
MaxRuns == 2
MaxPlanRows == 1001
MaxStoreTickets == 2
MaxStoreCalls == 4

(* 86400 seconds, in ticks of a day *)
TtlTicks == 1

Procs == {"p1", "p2"}
TicketIds == 1..MaxTickets

(* every id a ticket can get, those of the tickets of repeated runs included *)
IssuableIds == 1..(MaxTickets + MaxRuns - 1)

Statuses == {"PENDING_APPROVAL", "APPROVED", "REJECTED", "EXPIRED", "EXECUTED",
             "EXECUTION_FAILED", "EXECUTION_ERROR", "ROLLBACK_REQUESTED"}

(* SQL text as its sequence of upper-cased words *)
UpdateStmt == <<"UPDATE", "users", "SET", "x", "WHERE", "id=">>
SelectStmt == <<"SELECT", "FROM", "users">>
SqlInputs == {UpdateStmt, SelectStmt, <<>>}

(* Python values a caller-supplied dict holds: str, int and float are JSON
   native; any other object (a datetime, a Decimal) is not *)
PyStr(s) == [py |-> "str", v |-> s]
PyInt(digits) == [py |-> "int", v |-> digits]
PyFloat(repr) == [py |-> "float", v |-> repr]

(* the impact_analysis snapshot stored with a ticket, as analyze_query_impact
   builds it: the risk level, the row estimate (a number, or "unknown"), and
   the thresholds, of which the CRITICAL one is float('inf') *)
ImpactSnapshot(level, rows) ==
    [level |-> PyStr(level), estimated_rows |-> rows,
     critical_threshold |-> PyFloat("inf")]

ImpactInputs == {ImpactSnapshot("CRITICAL", PyInt("10000"))}

(* new_status arguments of direct update_approval_status callers *)
UpdateInputs == {"APPROVED", "EXPIRED"}

(* cursor.rowcount values *)
Rowcounts == {1}

NoReq == [status |-> "NONE"]
NoOutcome == [status |-> "none", error_type |-> "none", tx |-> "none",
              rows |-> "none"]
NoResult == [status |-> "none", error_type |-> "none", tx |-> "none",
             rows |-> "none", req |-> NoReq, ticket_updated |-> "none",
             retrieval_error |-> "none",
             current_status |-> "NONE"]

(* a tool call: where it stands (pc), its arguments (tid, arg, by), its local
   variables (snap: the ticket execute or rollback read; usnap: the ticket
   update_approval_status read; outcome: what _execute_with_transaction
   returned; upd: what update_approval_status returned), its result, and
   what it did to the database (conn: a connection is open; opened: how many
   it opened; raised: the command that raised; committed: its transaction
   committed) *)
IdleCall == [pc |-> "idle", op |-> "none", tid |-> 0, arg |-> "NONE",
             by |-> "none", snap |-> NoReq, outcome |-> NoOutcome,
             usnap |-> NoReq, upd |-> "none", result |-> NoResult,
             conn |-> FALSE, opened |-> 0, raised |-> "none",
             committed |-> FALSE]

NoRun == [flow |-> "none"]

NoRet == [proc |-> "none", c |-> IdleCall]

NoAnalysis == [phase |-> "none"]

---------------------------------------------------------------------------
(* The Redis store *)

EmptyStore == [x \in {} |-> NoReq]

(* json.dumps(..., default=str) of one value: a str becomes a JSON string,
   an int a number, float('inf') the token Infinity, and an object json
   cannot encode becomes the JSON string of its str() *)
JsonDumpsValue(x) ==
    CASE x.py = "int" -> [json |-> "number", text |-> x.v]
      [] x.py = "float" ->
            [json |-> "number",
             text |-> IF x.v = "inf" THEN "Infinity" ELSE x.v]
      [] OTHER -> [json |-> "string", text |-> x.v]

(* a decoder that reads every JSON number as an int *)
LoadsNumbersAsInt(j) ==
    IF j.json = "string" THEN PyStr(j.text) ELSE PyInt(j.text)

(* json.loads of one value *)
JsonLoadsValue(j) ==
    IF j.json = "string" THEN PyStr(j.text)
    ELSE IF j.text = "Infinity" THEN PyFloat("inf")
    ELSE PyInt(j.text)

(* the stored text of a ticket: the caller-supplied parts are encoded, the
   fields the ticket manager writes itself are strings and lists already *)
JsonDumps(req) ==
    [req EXCEPT !.sql_query = [json |-> "string", text |-> @],
                !.impact_analysis =
                    [f \in DOMAIN @ |-> JsonDumpsValue(@[f])]]

JsonLoads(data) ==
    [data EXCEPT !.sql_query = @.text,
                 !.impact_analysis =
                     [f \in DOMAIN @ |-> JsonLoadsValue(@[f])]]

Get(k) == IF k \in DOMAIN store THEN JsonLoads(store[k].req) ELSE NoReq

Setex(s, k, ttl, req) ==
    [x \in (DOMAIN s) \cup {k} |->
        IF x = k THEN [req |-> JsonDumps(req), ttl_at |-> now + ttl] ELSE s[x]]

Delete(s, k) == [x \in (DOMAIN s) \ {k} |-> s[x]]

Init ==
    /\ now = 0
    /\ store = EmptyStore
    /\ rollbackLog = {}
    /\ nextId = 0
    /\ commits = [t \in IssuableIds |-> 0]
    /\ calls = 0
    /\ call = [p \in Procs |-> IdleCall]
    /\ ret = NoRet
    /\ wf = [p \in Procs |-> NoRun]
    /\ analysis = NoAnalysis

(* the clock advances; Redis evicts a key whose TTL has run out before the
   clock moves on.  The clock reading is relative to the first ticket: time
   that passes before any ticket exists changes nothing. *)
Tick ==
    /\ now < MaxTime
    /\ nextId > 0
    /\ \A k \in DOMAIN store : store[k].ttl_at >= now
    /\ now' = now + 1
    /\ ret' = NoRet
    /\ UNCHANGED <<store, rollbackLog, nextId, commits, calls, call, wf, analysis>>

RedisExpire(k) ==
    /\ k \in DOMAIN store
    /\ now > store[k].ttl_at
    /\ store' = Delete(store, k)
    /\ ret' = NoRet
    /\ UNCHANGED <<now, rollbackLog, nextId, commits, calls, call, wf, analysis>>

---------------------------------------------------------------------------
(* Workflow runs: state, validation, routers, and what a node does with the
   result of the tool call it made *)

Flows == {"unified", "destructive"}
IntentKinds == {"SELECT", "UPDATE"}
RiskLevels == {"LOW", "MEDIUM", "HIGH", "CRITICAL", "UNKNOWN"}

(* statements the query builder may generate, whatever the intent *)
GeneratedSql == {SelectStmt, UpdateStmt, <<"SELECT", "1">>,
                 <<"SELECT", "CREATED_AT", "FROM", "users">>,
                 <<"UPDATE", "users", "SET", "CREATED_AT", "=", "1">>,
                 <<"DROP", "TABLE", "users">>, <<>>}

(* max_checks of the approval poll *)
MaxChecks == 5

DangerousKeywords == {"DROP", "TRUNCATE", "ALTER", "CREATE"}

(* the keywords a word of the statement contains as a substring *)
KeywordsIn(word) ==
    IF word = "CREATED_AT" THEN {"CREATE"}
    ELSE IF word \in DangerousKeywords \cup {"FROM"} THEN {word}
    ELSE {}

Mentions(sql, kw) == \E i \in 1..Len(sql) : kw \in KeywordsIn(sql[i])

(* QueryBuilderAgent.validate_query: is_valid *)
ValidateQuery(sql) ==
    IF sql = <<>> THEN FALSE
    ELSE IF Head(sql) \notin {"SELECT", "UPDATE", "DELETE", "INSERT"} THEN FALSE
    ELSE /\ ~(Head(sql) = "SELECT" /\ ~Mentions(sql, "FROM"))
         /\ \A kw \in DangerousKeywords : ~Mentions(sql, kw)

WfInit(flow, intent) ==
    [flow |-> flow, node |-> "fetch_schema", step |-> "none",
     visited |-> {"fetch_schema"}, intent |-> intent, sql_query |-> <<>>,
     query_type |-> "", risk_level |-> "UNKNOWN", approval_required |-> FALSE,
     ticket |-> 0, approval_status |-> IF flow = "unified" THEN "" ELSE "unknown",
     check_count |-> 0, waits |-> 0,
     workflow_status |-> "running", route |-> "none",
     execution_result |-> NoOutcome, did |-> {},
     run |-> 1, prev |-> 0, prev_status |-> "none"]

(* a variant in which no node looks at the error status *)
NeverFailed(w) == FALSE

Failed(w) == w.workflow_status = "error"

ResultSummary(c) ==
    [status |-> c.result.status, error_type |-> c.result.error_type,
     tx |-> c.result.tx, rows |-> c.result.rows]

(* the graph schedules node n next *)
Goto(w, n) == [w EXCEPT !.node = n, !.visited = @ \cup {n}]

Fail(w) == [w EXCEPT !.workflow_status = "error"]

(* the node called the service or agent function a: the schema fetch, the
   SQL generation, the validation, the read execution, the impact analysis *)
Did(w, a) == [w EXCEPT !.did = @ \cup {a}]

(* a variant of the status router that lets a timed-out run execute *)
ExecuteOnTimeout(w) ==
    IF w.workflow_status \in {"error", "rejected", "expired"} THEN "END"
    ELSE IF w.workflow_status = "timeout" THEN "execute_destructive"
    ELSE IF w.approval_status = "APPROVED" THEN "execute_destructive"
    ELSE IF w.approval_status = "PENDING_APPROVAL" THEN "wait_approval"
    ELSE "END"

(* a variant of the router that follows the intent instead of the statement *)
RouteByIntent(w) ==
    IF Failed(w) THEN "error"
    ELSE IF w.intent = "SELECT" THEN "select"
    ELSE "destructive"

(* _query_type_router *)
QueryTypeRouter(w) ==
    IF Failed(w) THEN "error"
    ELSE IF w.query_type = "SELECT" THEN "select"
    ELSE IF w.query_type = "DESTRUCTIVE" THEN "destructive"
    ELSE "error"

QueryTypeTarget(label) ==
    CASE label = "select" -> "execute_select"
      [] label = "destructive" -> "analyze_impact"
      [] OTHER -> "END"

(* _check_approval_required_node of the unified workflow *)
UnifiedApprovalRequired(risk) == risk \in {"HIGH", "CRITICAL"}

(* a variant that asks for approval of CRITICAL statements only *)
CriticalOnly(risk) == risk \notin {"LOW", "MEDIUM", "HIGH"}

(* _check_approval_required_node of the destructive workflow: an unknown
   level requires approval *)
DestructiveApprovalRequired(risk) == risk \notin {"LOW", "MEDIUM"}

(* _approval_router, the same in both workflows *)
ApprovalRouter(w) ==
    IF Failed(w) THEN "END"
    ELSE IF w.approval_required THEN "create_approval"
    ELSE IF w.flow = "unified" THEN "execute_destructive"
    ELSE "execute_query"

(* _approval_status_router of the unified workflow *)
UnifiedApprovalStatusRouter(w) ==
    IF w.workflow_status \in {"error", "rejected", "expired", "timeout"}
    THEN "END"
    ELSE IF w.approval_status = "APPROVED" THEN "execute_destructive"
    ELSE IF w.approval_status = "PENDING_APPROVAL" THEN "wait_approval"
    ELSE "END"

(* _approval_status_router of the destructive workflow *)
DestructiveApprovalStatusRouter(w) ==
    IF Failed(w) THEN "END"
    ELSE IF w.approval_status = "approved" THEN "execute_query"
    ELSE IF w.approval_status \in {"pending", "pending_approval"}
         THEN "wait_approval"
    ELSE "END"

ApprovalStatusRouter(w) ==
    IF w.flow = "unified" THEN UnifiedApprovalStatusRouter(w)
    ELSE DestructiveApprovalStatusRouter(w)

(* _create_approval_node with the result of create_approval_request *)
AfterCreate(w, c) ==
    Goto(IF c.result.status = "success"
         THEN [w EXCEPT !.ticket = c.tid,
                        !.approval_status = IF w.flow = "unified"
                                            THEN "PENDING_APPROVAL" ELSE "pending"]
         ELSE Fail(w),
         "wait_approval")

(* the wait node has run once more; waits only counts its runs *)
Waited(w) == [w EXCEPT !.waits = @ + 1]

(* a variant of the wait node that never gives up *)
WaitForever(w, c) ==
    IF c.result.status # "found" THEN Fail(w)
    ELSE LET current == c.result.req.status
             w1 == [w EXCEPT !.approval_status = current]
         IN CASE current = "APPROVED" -> w1
              [] current = "REJECTED" -> [w1 EXCEPT !.workflow_status = "rejected"]
              [] current = "EXPIRED" -> [w1 EXCEPT !.workflow_status = "expired"]
              [] current = "PENDING_APPROVAL" ->
                    [w1 EXCEPT !.check_count = IF @ < MaxChecks THEN @ + 1 ELSE @]
              [] OTHER -> Fail(w1)

(* _wait_approval_node of the unified workflow with the result of
   check_approval_status *)
UnifiedAfterCheck(w, c) ==
    IF c.result.status # "found" THEN Fail(w)
    ELSE LET current == c.result.req.status
             w1 == [w EXCEPT !.approval_status = current]
         IN CASE current = "APPROVED" -> w1
              [] current = "REJECTED" -> [w1 EXCEPT !.workflow_status = "rejected"]
              [] current = "EXPIRED" -> [w1 EXCEPT !.workflow_status = "expired"]
              [] current = "PENDING_APPROVAL" ->
                    [w1 EXCEPT !.check_count = @ + 1,
                               !.workflow_status =
                                   IF w.check_count + 1 > MaxChecks
                                   THEN "timeout" ELSE @]
              [] OTHER -> Fail(w1)

(* _wait_approval_node of the destructive workflow: it expects the status
   "success", which check_approval_status never returns *)
DestructiveAfterCheck(w, c) ==
    IF c.result.status = "success"
    THEN [w EXCEPT !.approval_status = "unknown"]
    ELSE Fail(w)

AfterCheck(w, c) ==
    LET w1 == IF w.flow = "unified" THEN UnifiedAfterCheck(w, c)
              ELSE DestructiveAfterCheck(w, c)
    IN Goto(Waited(w1), ApprovalStatusRouter(w1))

(* _execute_destructive_node with the result of execute_approved_query *)
UnifiedAfterExecute(w, c) ==
    Goto([w EXCEPT !.execution_result = ResultSummary(c),
                   !.workflow_status = IF c.result.status = "success" THEN @
                                       ELSE "error"],
         "END")

(* _execute_query_node of the destructive workflow, as its tool calls return:
   the temporary ticket, its self-approval, the execution *)
DestructiveAfterExecute(w, c) ==
    CASE c.op = "create" ->
            IF c.result.status = "success"
            THEN [w EXCEPT !.ticket = c.tid, !.step = "approve"]
            ELSE Goto(Fail(w), "END")
      [] c.op = "update" ->
            IF c.result.status = "success" THEN [w EXCEPT !.step = "run"]
            ELSE Goto(Fail([w EXCEPT !.ticket = 0, !.step = "none"]), "END")
      [] OTHER ->
            Goto([w EXCEPT !.execution_result = ResultSummary(c), !.step = "none",
                      !.workflow_status = IF c.result.status = "success"
                                          THEN "completed"
                                          ELSE "execution_failed"],
                 "END")

(* a workflow run takes the result of the tool call its current node made *)
Resume(w, c) ==
    IF w.flow = "none" THEN w
    ELSE CASE w.node = "create_approval" -> AfterCreate(w, c)
           [] w.node = "wait_approval" -> AfterCheck(w, c)
           [] w.node = "execute_destructive" -> UnifiedAfterExecute(w, c)
           [] w.node = "execute_query" -> DestructiveAfterExecute(w, c)
           [] OTHER -> w

(* execution_result.get("status", "success") *)
ExecutionStatus(w) ==
    IF w.execution_result.status = "none" THEN "success"
    ELSE w.execution_result.status

(* _format_response of the unified workflow: the status of the result *)
UnifiedResponseStatus(w) ==
    IF w.workflow_status = "error" THEN "error"
    ELSE IF w.query_type = "SELECT" THEN "success"
    ELSE IF w.query_type # "DESTRUCTIVE" THEN "error"
    ELSE IF ~w.approval_required THEN ExecutionStatus(w)
    ELSE IF w.approval_status = "PENDING_APPROVAL" THEN "pending_approval"
    ELSE IF w.approval_status = "APPROVED" THEN ExecutionStatus(w)
    ELSE IF w.workflow_status = "rejected" THEN "rejected"
    ELSE IF w.workflow_status \in {"expired", "timeout"} THEN "expired"
    ELSE "error"

(* _format_response of the destructive workflow *)
DestructiveResponseStatus(w) ==
    IF w.workflow_status = "completed" THEN "success"
    ELSE IF w.workflow_status = "running" /\ w.approval_required
         THEN "pending_approval"
    ELSE IF w.workflow_status = "execution_failed" THEN "execution_failed"
    ELSE "error"

(* the result of run(): its status, and whether its metadata holds the
   manual_approval_url the wait node adds when it gives up *)
FormatResponse(w) ==
    [status |-> IF w.flow = "unified" THEN UnifiedResponseStatus(w)
                ELSE DestructiveResponseStatus(w),
     manual_approval_url |-> w.workflow_status = "timeout"]

---------------------------------------------------------------------------
(* Approval ticket manager: create / check / update *)

Res(status, etype) == [NoResult EXCEPT !.status = status, !.error_type = etype]

Finish(c, res) == [c EXCEPT !.pc = "done", !.result = res]

(* the caller has no tool call in flight *)
Ready(p) == call[p].pc = "idle"

(* caller p's tool call moves to c; when c is finished it returns to p *)
Deliver(p, c) ==
    /\ UNCHANGED analysis
    /\ IF c.pc = "done"
       THEN /\ call' = [call EXCEPT ![p] = IdleCall]
            /\ ret' = [proc |-> p, c |-> [c EXCEPT !.usnap = NoReq]]
            /\ wf' = [wf EXCEPT ![p] = Resume(@, c)]
       ELSE /\ call' = [call EXCEPT ![p] = c]
            /\ ret' = NoRet
            /\ wf' = wf

(* a top-level call of a caller that runs no workflow *)
Free(p) == wf[p].flow = "none" /\ calls < MaxCalls

NewRequest(id, sql, impact, requester) ==
    [ticket_id |-> id, status |-> "PENDING_APPROVAL", sql_query |-> sql,
     impact_analysis |-> impact, requester_info |-> requester,
     created_at |-> now, expires_at |-> now + TtlTicks, updated_at |-> -1,
     approval_history |-> <<>>]

(* a variant of the id generator that hands out the latest id again *)
ReusedId == IF nextId = 0 THEN 1 ELSE nextId

(* uuid.uuid4(): an id no earlier call got *)
FreshId == nextId + 1

(* create_approval_request: one SETEX under a fresh uuid *)
CreateCore(p, sql, impact, requester, up) ==
    /\ Ready(p)
    /\ nextId' = nextId + 1
    /\ LET id == FreshId
           req == NewRequest(id, sql, impact, requester)
           c1 == [IdleCall EXCEPT !.op = "create", !.tid = id]
       IN IF up
          THEN /\ store' = Setex(store, id, TtlTicks, req)
               /\ Deliver(p, Finish(c1, [Res("success", "none") EXCEPT !.req = req]))
          ELSE /\ store' = store
               /\ Deliver(p, Finish(c1, Res("error", "creation_error")))

(* the bound on tickets: MaxTickets, and one more for every repeated run *)
TicketBudget ==
    MaxTickets + Cardinality({q \in Procs : wf[q].flow # "none" /\ wf[q].run > 1})

CreateBody(p, sql, impact, requester, up) ==
    /\ nextId < TicketBudget
    /\ CreateCore(p, sql, impact, requester, up)

IsExpired(expires_at) == now > expires_at

(* a variant that answers from the store although the store does not *)
CheckIgnoringOutage(k, up) ==
    IF k \notin DOMAIN store THEN "not_found"
    ELSE IF IsExpired(store[k].req.expires_at) THEN "expired"
    ELSE "found"

(* the status check_approval_status returns for key k in the current state *)
CheckStatus(k, up) ==
    IF ~up THEN "error"
    ELSE IF k \notin DOMAIN store THEN "not_found"
    ELSE IF IsExpired(store[k].req.expires_at) THEN "expired"
    ELSE "found"

(* ... and the store it leaves: an expired record is deleted *)
StoreAfterCheck(k, up) ==
    IF CheckStatus(k, up) = "expired" THEN Delete(store, k) ELSE store

CheckResult(k, up) ==
    LET st == CheckStatus(k, up)
    IN CASE st = "found" -> [Res("found", "none") EXCEPT !.req = Get(k)]
         [] st = "error" -> Res("error", "check_error")
         [] OTHER -> Res(st, "none")

CheckBody(p, k, up) ==
    /\ Ready(p)
    /\ store' = StoreAfterCheck(k, up)
    /\ Deliver(p, Finish([IdleCall EXCEPT !.op = "check", !.tid = k],
                   CheckResult(k, up)))

(* rollback_info["retrieval_error"] is set where the lookup of the ticket
   raises; check_approval_status returns every failure (not_found, expired,
   error) as a result and raises nothing, so the note is never set *)
RetrievalError == FALSE

(* a variant whose history entry names the new status as the old one *)
UpdatedWithoutOldStatus(snap, new, who) ==
    [snap EXCEPT !.status = new, !.updated_at = now,
                 !.approval_history = Append(@,
                     [old_status |-> new, new_status |-> new,
                      approver_info |-> who])]

(* a variant that also extends the ticket's life by a day *)
UpdatedWithFreshExpiry(snap, new, who) ==
    [snap EXCEPT !.status = new, !.updated_at = now,
                 !.expires_at = now + TtlTicks,
                 !.approval_history = Append(@,
                     [old_status |-> snap.status, new_status |-> new,
                      approver_info |-> who])]

(* a variant that appends the history entry and leaves the status as it was *)
UpdatedKeepingStatus(snap, new, who) ==
    [snap EXCEPT !.updated_at = now,
                 !.approval_history = Append(@,
                     [old_status |-> snap.status, new_status |-> new,
                      approver_info |-> who])]

(* the record update_approval_status writes back: the snapshot it read, with
   the new status and one more history entry *)
UpdatedRequest(snap, new, who) ==
    [snap EXCEPT !.status = new, !.updated_at = now,
                 !.approval_history = Append(@,
                     [old_status |-> snap.status, new_status |-> new,
                      approver_info |-> who])]

(* the ticket status written after _execute_with_transaction returned *)
PostExecutionStatus(outcomeStatus) ==
    IF outcomeStatus = "success" THEN "EXECUTED" ELSE "EXECUTION_FAILED"

(* a variant in which a failed status write turns the result of execute
   into an execution_error *)
StatusWriteFailureMasks(c) ==
    IF c.upd # "success" THEN [Res("error", "execution_error") EXCEPT !.req = c.snap]
    ELSE [Res(c.outcome.status, c.outcome.error_type) EXCEPT
             !.tx = c.outcome.tx, !.rows = c.outcome.rows, !.req = c.snap]

(* what execute_approved_query returns after step 5: the result of
   _execute_with_transaction with the ticket it read; the result of the
   status write is not looked at *)
ExecuteResult(c) ==
    [Res(c.outcome.status, c.outcome.error_type) EXCEPT
        !.tx = c.outcome.tx, !.rows = c.outcome.rows, !.req = c.snap]

(* update_approval_status has returned c.upd to the operation that called it *)
UpdReturn(c) ==
    CASE c.op = "update" ->
            Finish(c, IF c.upd = "success"
                      THEN [Res("success", "none") EXCEPT !.req =
                               UpdatedRequest(c.usnap, c.arg, c.by)]
                      ELSE IF c.upd = "error" THEN Res("error", "update_error")
                      ELSE Res(c.upd, "none"))
      [] c.op \in {"approve", "reject"} ->
            Finish(c, IF c.upd = "success" THEN Res("success", "none")
                      ELSE Res("error", "none"))
      [] c.op = "execute" -> Finish(c, ExecuteResult(c))
      [] c.op = "rollback" ->
            Finish(c, [Res("logged", "none") EXCEPT !.ticket_updated = TRUE,
                          !.retrieval_error = RetrievalError])

(* update_approval_status, first half: check_approval_status *)
UpdCheckCall(c, up) ==
    LET st == CheckStatus(c.tid, up)
    IN IF st = "found"
       THEN [c EXCEPT !.pc = "u_write", !.usnap = Get(c.tid)]
       ELSE UpdReturn([c EXCEPT !.upd = st])

UpdCheck(p) ==
    /\ call[p].pc = "u_check"
    /\ \E up \in BOOLEAN :
         /\ store' = StoreAfterCheck(call[p].tid, up)
         /\ Deliver(p, UpdCheckCall(call[p], up))
    /\ UNCHANGED <<now, rollbackLog, nextId, commits, calls>>

(* update_approval_status, second half: SETEX of the modified snapshot *)
UpdWrite(p) ==
    /\ call[p].pc = "u_write"
    /\ LET c == call[p]
       IN \/ /\ store' = Setex(store, c.tid, TtlTicks,
                                UpdatedRequest(c.usnap, c.arg, c.by))
             /\ Deliver(p, UpdReturn([c EXCEPT !.upd = "success"]))
          \/ /\ store' = store
             /\ Deliver(p, UpdReturn([c EXCEPT !.upd = "error"]))
    /\ UNCHANGED <<now, rollbackLog, nextId, commits, calls>>

(* a direct update_approval_status call *)
UpdateBody(p, k, new, who, up) ==
    /\ Ready(p)
    /\ store' = StoreAfterCheck(k, up)
    /\ Deliver(p, UpdCheckCall([IdleCall EXCEPT !.op = "update", !.tid = k,
                                         !.arg = new, !.by = who], up))

---------------------------------------------------------------------------
(* The approve / reject / status endpoints of main.py *)

(* approve_request and reject_request: an existence check, then
   update_approval_status, whatever the ticket's current status is *)
EndpointBody(p, k, opname, new, up) ==
    /\ Ready(p)
    /\ store' = StoreAfterCheck(k, up)
    /\ Deliver(p, IF CheckStatus(k, up) = "found"
            THEN [IdleCall EXCEPT !.pc = "u_check", !.op = opname, !.tid = k,
                                 !.arg = new, !.by = "web_endpoint"]
            ELSE Finish([IdleCall EXCEPT !.op = opname, !.tid = k],
                        Res("error", "none")))

---------------------------------------------------------------------------
(* Execution engine: execute_approved_query and _execute_with_transaction *)


(* a variant that takes a SELECT for an UPDATE *)
SelectAsUpdate(sql) ==
    IF sql = <<>> THEN "UNKNOWN"
    ELSE IF Head(sql) = "SELECT" THEN "UPDATE"
    ELSE IF Head(sql) \in {"UPDATE", "DELETE", "INSERT"} THEN Head(sql)
    ELSE "UNKNOWN"

(* _get_query_type: the statement's first word *)
GetQueryType(sql) ==
    IF sql = <<>> THEN "UNKNOWN"
    ELSE IF Head(sql) \in {"UPDATE", "DELETE", "INSERT", "SELECT"} THEN Head(sql)
    ELSE "UNKNOWN"

(* variants of the APPROVED gate that the claims below must tell apart *)
IsNotPending(status) == status # "PENDING_APPROVAL"

AnyStatus(status) == status \in Statuses

(* a variant that also takes an executed ticket for an approved one *)
ApprovedOrExecuted(status) == status \in {"APPROVED", "EXECUTED"}

IsApproved(status) == status = "APPROVED"

(* steps 1 to 3: the ticket must be found, APPROVED, and hold a mutation *)
ExecuteCheckCall(c, k, who, up) ==
    LET st == CheckStatus(k, up)
        req == Get(k)
        c1 == [c EXCEPT !.op = "execute", !.tid = k, !.by = who]
    IN IF st # "found" THEN Finish(c1, Res("error", "ticket_not_found"))
       ELSE IF ~IsApproved(req.status)
            THEN Finish([c1 EXCEPT !.snap = req],
                        [Res("error", "not_approved") EXCEPT
                            !.current_status = req.status])
       ELSE IF req.sql_query = <<>>
            THEN Finish([c1 EXCEPT !.snap = req], Res("error", "missing_query"))
       ELSE IF GetQueryType(req.sql_query) \notin {"UPDATE", "DELETE", "INSERT"}
            THEN Finish([c1 EXCEPT !.snap = req],
                        Res("error", "invalid_query_type"))
       ELSE [c1 EXCEPT !.pc = "x_connect", !.snap = req]

ExecuteBody(p, k, who, up) ==
    /\ Ready(p)
    /\ store' = StoreAfterCheck(k, up)
    /\ Deliver(p, ExecuteCheckCall(IdleCall, k, who, up))

ErrorKinds == {"database_error"}

ErrorOutcome(kind, tx) ==
    [status |-> "error", error_type |-> kind, tx |-> tx, rows |-> "none"]

(* psycopg2.connect: a connection, or an error with no connection to roll back *)
ExecConnect(p) ==
    /\ call[p].pc = "x_connect"
    /\ \/ Deliver(p, [call[p] EXCEPT !.pc = "x_statement",
                        !.conn = TRUE, !.opened = @ + 1])
       \/ Deliver(p, [call[p] EXCEPT !.pc = "x_finally", !.raised = "connect",
                        !.outcome = ErrorOutcome("database_error", "no_connection")])
    /\ UNCHANGED <<now, store, rollbackLog, nextId, commits, calls>>

(* a variant that commits whatever the statement did *)
AlwaysCommit(raised) == "x_commit"

(* where the transaction goes after cursor.execute(sql_query) *)
AfterStatement(raised) == IF raised THEN "x_rollback" ELSE "x_commit"

(* BEGIN and the stored statement: rowcount captured, or an exception *)
ExecStatement(p) ==
    /\ call[p].pc = "x_statement"
    /\ \/ \E n \in Rowcounts :
            Deliver(p, [call[p] EXCEPT !.pc = AfterStatement(FALSE),
                        !.outcome = [NoOutcome EXCEPT !.rows = n]])
       \/ \E e \in ErrorKinds :
            Deliver(p, [call[p] EXCEPT !.pc = AfterStatement(TRUE),
                        !.raised = "statement",
                        !.outcome = [NoOutcome EXCEPT !.error_type = e]])
    /\ UNCHANGED <<now, store, rollbackLog, nextId, commits, calls>>

(* cursor.execute("COMMIT") and connection.commit(): the transaction commits
   and both return; or COMMIT raises and nothing is committed; or COMMIT
   commits and connection.commit() raises (the connection is lost) *)
ExecCommit(p) ==
    /\ call[p].pc = "x_commit"
    /\ \/ /\ commits' = [commits EXCEPT ![call[p].tid] = @ + 1]
          /\ Deliver(p, [call[p] EXCEPT !.pc = "x_finally", !.committed = TRUE,
                        !.outcome = [status |-> "success", error_type |-> "none",
                                     tx |-> "committed", rows |-> @.rows]])
       \/ /\ commits' = commits
          /\ \E e \in ErrorKinds :
                Deliver(p, [call[p] EXCEPT !.pc = "x_rollback",
                            !.raised = "commit",
                            !.outcome = [NoOutcome EXCEPT !.error_type = e]])
       \/ /\ commits' = [commits EXCEPT ![call[p].tid] = @ + 1]
          /\ \E e \in ErrorKinds :
                Deliver(p, [call[p] EXCEPT !.pc = "x_rollback",
                            !.raised = "commit", !.committed = TRUE,
                            !.outcome = [NoOutcome EXCEPT !.error_type = e]])
    /\ UNCHANGED <<now, store, rollbackLog, nextId, calls>>

(* the disposition recorded by the except branches *)
RollbackStatus(rolledBack) ==
    IF rolledBack THEN "rolled_back" ELSE "rollback_failed"

(* except: connection.rollback(), which may itself fail *)
ExecRollback(p) ==
    /\ call[p].pc = "x_rollback"
    /\ \E ok \in BOOLEAN :
         Deliver(p, [call[p] EXCEPT !.pc = "x_finally",
                     !.outcome = ErrorOutcome(call[p].outcome.error_type, RollbackStatus(ok))])
    /\ UNCHANGED <<now, store, rollbackLog, nextId, commits, calls>>

(* a variant that leaves the connection open when the rollback failed *)
OpenAfterFailedRollback(c) == c.outcome.tx = "rollback_failed"

(* whether the connection is still open after the finally block *)
ConnAfterFinally(c) == FALSE

(* finally: close the connection if there is one; then step 5 of
   execute_approved_query starts the ticket update *)
ExecFinally(p) ==
    /\ call[p].pc = "x_finally"
    /\ Deliver(p, [call[p] EXCEPT !.pc = "u_check",
                    !.conn = ConnAfterFinally(call[p]),
                    !.arg = PostExecutionStatus(call[p].outcome.status)])
    /\ UNCHANGED <<now, store, rollbackLog, nextId, commits, calls>>

---------------------------------------------------------------------------
(* Rollback logger: rollback_operation *)

RollbackInfos == {"None", "given"}

(* steps 1 to 4: look the ticket up (best effort), log, and write the audit
   record rollback_log:<id>, a key no other operation reads or writes, so its
   SETEX is taken together with the lookup; logging reads
   operation_info.get(...), which raises when operation_info is None.
   Step 6 then starts the ticket update. *)
(* a variant of step 6 that runs the statement of the ticket again *)
RollbackReexecutes(c) == [c EXCEPT !.pc = "x_connect"]

(* step 6: update_approval_status(ticket_id, "ROLLBACK_REQUESTED", ...) *)
AfterRollbackLog(c) == [c EXCEPT !.pc = "u_check", !.arg = "ROLLBACK_REQUESTED"]

RollbackBody(p, k, info, up, logged) ==
    /\ Ready(p)
    /\ store' = StoreAfterCheck(k, up)
    /\ rollbackLog' = IF info # "None" /\ logged THEN rollbackLog \cup {k}
                      ELSE rollbackLog
    /\ Deliver(p, LET c1 == [IdleCall EXCEPT !.op = "rollback", !.tid = k,
                              !.by = info,
                              !.snap = IF CheckStatus(k, up) = "found"
                                       THEN Get(k) ELSE NoReq]
                  IN IF info = "None"
                     THEN Finish(c1, Res("error", "rollback_error"))
                     ELSE AfterRollbackLog(c1))

---------------------------------------------------------------------------
(* Callers of the tools *)

Create(p) ==
    /\ Free(p)
    /\ \E sql \in SqlInputs, impact \in ImpactInputs, up \in BOOLEAN :
         CreateBody(p, sql, impact, "user", up)
    /\ calls' = calls + 1
    /\ UNCHANGED <<now, rollbackLog, commits>>

CheckApprovalStatus(p) ==
    /\ Free(p)
    /\ \E k \in TicketIds, up \in BOOLEAN : CheckBody(p, k, up)
    /\ calls' = calls + 1
    /\ UNCHANGED <<now, rollbackLog, nextId, commits>>

UpdateApprovalStatus(p) ==
    /\ Free(p)
    /\ \E k \in TicketIds, new \in UpdateInputs, up \in BOOLEAN :
         UpdateBody(p, k, new, "direct", up)
    /\ calls' = calls + 1
    /\ UNCHANGED <<now, rollbackLog, nextId, commits>>

ApproveRequest(p) ==
    /\ Free(p)
    /\ \E k \in TicketIds, up \in BOOLEAN :
         EndpointBody(p, k, "approve", "APPROVED", up)
    /\ calls' = calls + 1
    /\ UNCHANGED <<now, rollbackLog, nextId, commits>>

RejectRequest(p) ==
    /\ Free(p)
    /\ \E k \in TicketIds, up \in BOOLEAN :
         EndpointBody(p, k, "reject", "REJECTED", up)
    /\ calls' = calls + 1
    /\ UNCHANGED <<now, rollbackLog, nextId, commits>>

ExecuteApprovedQuery(p) ==
    /\ Free(p)
    /\ \E k \in TicketIds, up \in BOOLEAN : ExecuteBody(p, k, "executor", up)
    /\ calls' = calls + 1
    /\ UNCHANGED <<now, rollbackLog, nextId, commits>>

RollbackOperation(p) ==
    /\ Free(p)
    /\ \E k \in TicketIds, info \in RollbackInfos, up \in BOOLEAN,
          logged \in BOOLEAN :
         RollbackBody(p, k, info, up, logged)
    /\ calls' = calls + 1
    /\ UNCHANGED <<now, nextId, commits>>

ToolStep(p) ==
    \/ UpdCheck(p)
    \/ UpdWrite(p)
    \/ ExecConnect(p)
    \/ ExecStatement(p)
    \/ ExecCommit(p)
    \/ ExecRollback(p)
    \/ ExecFinally(p)

Environment ==
    \/ Tick
    \/ \E k \in TicketIds : RedisExpire(k)

Next ==
    \/ Environment
    \/ \E p \in Procs :
        \/ Create(p)
        \/ CheckApprovalStatus(p)
        \/ UpdateApprovalStatus(p)
        \/ ApproveRequest(p)
        \/ RejectRequest(p)
        \/ ExecuteApprovedQuery(p)
        \/ RollbackOperation(p)
        \/ ToolStep(p)

Spec == Init /\ [][Next]_vars

---------------------------------------------------------------------------
(* Workflow runs: the nodes of the two LangGraph workflows *)

Runner == "p1"

AtNode(p, n) == wf[p].flow # "none" /\ wf[p].node = n /\ Ready(p)

(* a node that calls no ticket or execution tool *)
PureStep(p, w) ==
    /\ wf' = [wf EXCEPT ![p] = w]
    /\ ret' = NoRet
    /\ UNCHANGED <<now, store, rollbackLog, nextId, commits, calls, call, analysis>>

(* run(): the initial state, and the edge START -> fetch_schema *)
StartRun(p) ==
    /\ wf[p] = NoRun
    /\ Ready(p)
    /\ \E flow \in Flows, intent \in IntentKinds :
         PureStep(p, WfInit(flow, intent))

FetchSchemaNode(p) ==
    /\ AtNode(p, "fetch_schema")
    /\ \E ok \in BOOLEAN :
         PureStep(p, Goto(Did(IF ok THEN wf[p] ELSE Fail(wf[p]),
                              "fetch_schema_context"),
                          "build_query"))

(* the statement comes from the language model: any statement for any intent *)
BuildQueryNode(p) ==
    /\ AtNode(p, "build_query")
    /\ IF Failed(wf[p])
       THEN PureStep(p, Goto(wf[p], "validate_query"))
       ELSE \/ \E sql \in GeneratedSql :
                 PureStep(p, Goto(Did([wf[p] EXCEPT !.sql_query = sql],
                                      "build_sql_query"),
                                  "validate_query"))
            \/ PureStep(p, Goto(Did(Fail(wf[p]), "build_sql_query"),
                                "validate_query"))

NextAfterValidate(w) ==
    IF w.flow = "unified" THEN "determine_query_type" ELSE "analyze_impact"

ValidateQueryNode(p) ==
    /\ AtNode(p, "validate_query")
    /\ LET w == wf[p]
       IN PureStep(p, Goto(IF Failed(w) THEN w
                           ELSE IF w.sql_query = <<>> THEN Fail(w)
                           ELSE Did(IF ValidateQuery(w.sql_query) THEN w
                                    ELSE Fail(w),
                                    "validate_query"),
                           NextAfterValidate(w)))

(* _determine_query_type_node: the first word of the generated statement *)
DetermineQueryType(w) ==
    IF Failed(w) THEN w
    ELSE IF w.sql_query # <<>> /\ Head(w.sql_query) = "SELECT"
         THEN [w EXCEPT !.query_type = "SELECT"]
    ELSE IF w.sql_query # <<>>
            /\ Head(w.sql_query) \in {"UPDATE", "DELETE", "INSERT"}
         THEN [w EXCEPT !.query_type = "DESTRUCTIVE"]
    ELSE Fail(w)

DetermineQueryTypeNode(p) ==
    /\ AtNode(p, "determine_query_type")
    /\ LET w == DetermineQueryType(wf[p])
           label == QueryTypeRouter(w)
       IN PureStep(p, Goto([w EXCEPT !.route = label], QueryTypeTarget(label)))

ExecuteSelectNode(p) ==
    /\ AtNode(p, "execute_select")
    /\ \E ok \in BOOLEAN :
         PureStep(p, Goto(IF Failed(wf[p]) THEN wf[p]
                          ELSE Did(IF ok THEN wf[p] ELSE Fail(wf[p]),
                                   "execute_select_query"),
                          "END"))

(* the risk level is what the impact analysis reports for the statement *)
AnalyzeImpactNode(p) ==
    /\ AtNode(p, "analyze_impact")
    /\ IF Failed(wf[p])
       THEN PureStep(p, Goto(wf[p], "check_approval_required"))
       ELSE \/ \E risk \in RiskLevels :
                 PureStep(p, Goto(Did([wf[p] EXCEPT !.risk_level = risk],
                                      "analyze_query_impact"),
                                  "check_approval_required"))
            \/ PureStep(p, Goto(Did(Fail(wf[p]), "analyze_query_impact"),
                                "check_approval_required"))

(* state["impact_analysis"] of a run: the snapshot that carries its level *)
ImpactOf(w) ==
    ImpactSnapshot(w.risk_level,
                   CASE w.risk_level = "LOW" -> PyInt("1")
                     [] w.risk_level = "MEDIUM" -> PyInt("100")
                     [] w.risk_level = "HIGH" -> PyInt("1000")
                     [] w.risk_level = "CRITICAL" -> PyInt("10000")
                     [] OTHER -> PyStr("unknown"))

ApprovalRequired(w) ==
    IF w.flow = "unified" THEN UnifiedApprovalRequired(w.risk_level)
    ELSE DestructiveApprovalRequired(w.risk_level)

CheckApprovalRequiredNode(p) ==
    /\ AtNode(p, "check_approval_required")
    /\ LET w == IF Failed(wf[p]) THEN wf[p]
                ELSE [wf[p] EXCEPT !.approval_required = ApprovalRequired(wf[p])]
       IN PureStep(p, Goto(w, ApprovalRouter(w)))

CreateApprovalNode(p) ==
    /\ AtNode(p, "create_approval")
    /\ IF Failed(wf[p])
       THEN PureStep(p, Goto(wf[p], "wait_approval"))
       ELSE /\ \E up \in BOOLEAN :
                 CreateBody(p, wf[p].sql_query, ImpactOf(wf[p]), wf[p].flow, up)
            /\ UNCHANGED <<now, rollbackLog, commits, calls>>

WaitApprovalNode(p) ==
    /\ AtNode(p, "wait_approval")
    /\ IF Failed(wf[p])
       THEN PureStep(p, Goto(Waited(wf[p]), ApprovalStatusRouter(wf[p])))
       ELSE IF wf[p].ticket = 0
       THEN PureStep(p, Goto(Waited(Fail(wf[p])),
                             ApprovalStatusRouter(Fail(wf[p]))))
       ELSE /\ \E up \in BOOLEAN : CheckBody(p, wf[p].ticket, up)
            /\ UNCHANGED <<now, rollbackLog, nextId, commits, calls>>

(* the result the unified workflow makes up for a statement that needs no
   approval: no tool is called *)
AutoApprovedResult ==
    [status |-> "success", error_type |-> "none", tx |-> "committed", rows |-> 0]

ExecuteDestructiveNode(p) ==
    /\ AtNode(p, "execute_destructive")
    /\ LET w == wf[p]
       IN IF Failed(w) THEN PureStep(p, Goto(w, "END"))
          ELSE IF ~w.approval_required
          THEN PureStep(p, Goto([w EXCEPT !.execution_result = AutoApprovedResult],
                                "END"))
          ELSE IF w.ticket = 0 THEN PureStep(p, Goto(Fail(w), "END"))
          ELSE /\ \E up \in BOOLEAN : ExecuteBody(p, w.ticket, "unified", up)
               /\ UNCHANGED <<now, rollbackLog, nextId, commits, calls>>

(* _execute_query_node of the destructive workflow: with an approved ticket
   it executes it; without approval it creates a temporary ticket ... *)
ExecuteQueryNode(p) ==
    /\ AtNode(p, "execute_query")
    /\ wf[p].step = "none"
    /\ LET w == wf[p]
       IN IF Failed(w) THEN PureStep(p, Goto(w, "END"))
          ELSE IF w.approval_required
          THEN IF w.ticket = 0 THEN PureStep(p, Goto(Fail(w), "END"))
               ELSE /\ \E up \in BOOLEAN : ExecuteBody(p, w.ticket, "none", up)
                    /\ UNCHANGED <<now, rollbackLog, nextId, commits, calls>>
          ELSE /\ \E up \in BOOLEAN :
                    CreateBody(p, w.sql_query, ImpactOf(w), w.flow, up)
               /\ UNCHANGED <<now, rollbackLog, commits, calls>>

(* ... approves it itself ... *)
AutoApprove(p) ==
    /\ AtNode(p, "execute_query")
    /\ wf[p].step = "approve"
    /\ \E up \in BOOLEAN : UpdateBody(p, wf[p].ticket, "APPROVED", "system", up)
    /\ UNCHANGED <<now, rollbackLog, nextId, commits, calls>>

(* ... and executes it *)
AutoExecute(p) ==
    /\ AtNode(p, "execute_query")
    /\ wf[p].step = "run"
    /\ \E up \in BOOLEAN : ExecuteBody(p, wf[p].ticket, "none", up)
    /\ UNCHANGED <<now, rollbackLog, nextId, commits, calls>>

WorkflowStep(p) ==
    \/ StartRun(p)
    \/ FetchSchemaNode(p)
    \/ BuildQueryNode(p)
    \/ ValidateQueryNode(p)
    \/ DetermineQueryTypeNode(p)
    \/ ExecuteSelectNode(p)
    \/ AnalyzeImpactNode(p)
    \/ CheckApprovalRequiredNode(p)
    \/ CreateApprovalNode(p)
    \/ WaitApprovalNode(p)
    \/ ExecuteDestructiveNode(p)
    \/ ExecuteQueryNode(p)
    \/ AutoApprove(p)
    \/ AutoExecute(p)

(* one workflow run, and the people who act on its ticket meanwhile *)
NextWF ==
    \/ Environment
    \/ WorkflowStep(Runner)
    \/ \E p \in Procs :
        \/ ToolStep(p)
    \/ \E p \in Procs \ {Runner} :
        \/ calls < MaxApproverCalls /\ ApproveRequest(p)
        \/ calls < MaxApproverCalls /\ RejectRequest(p)
        \/ calls < MaxApproverCalls /\ UpdateApprovalStatus(p)

SpecWF == Init /\ [][NextWF]_vars

(* One workflow run driven to its end.  The run is one coroutine: a node
   that can run does run, and a tool call in flight returns or raises.  The
   approver acts at most MaxPollApproverCalls times, at any moment, or not
   at all; the clock and the eviction are as in SpecWF. *)
NextPoll ==
    \/ Environment
    \/ WorkflowStep(Runner)
    \/ \E p \in Procs :
        \/ ToolStep(p)
    \/ \E p \in Procs \ {Runner} :
        \/ calls < MaxPollApproverCalls /\ ApproveRequest(p)
        \/ calls < MaxPollApproverCalls /\ RejectRequest(p)
        \/ calls < MaxPollApproverCalls /\ UpdateApprovalStatus(p)

SpecPoll ==
    Init /\ [][NextPoll]_vars /\ WF_vars(WorkflowStep(Runner) \/ ToolStep(Runner))

----------------------------------------------------------------------------
(* The workflow run again after a run that ended waiting for approval *)

(* run() called once more with the same query and intent, after the ticket
   of the run before was approved or rejected.  run() builds its initial
   state from its arguments alone; run, prev and prev_status only record
   which run this is, the ticket of the run before and the status that
   ticket had when this run started. *)
Rerun(p) ==
    /\ AtNode(p, "END")
    /\ LET w == wf[p]
       IN /\ w.run < MaxRuns
          /\ w.approval_required
          /\ FormatResponse(w).status = "pending_approval"
          /\ w.ticket \in DOMAIN store
          /\ store[w.ticket].req.status \in {"APPROVED", "REJECTED"}
          /\ PureStep(p, [WfInit(w.flow, w.intent) EXCEPT
                            !.run = w.run + 1, !.prev = w.ticket,
                            !.prev_status = store[w.ticket].req.status])

NextRerun ==
    \/ WorkflowStep(Runner)
    \/ Rerun(Runner)
    \/ \E p \in Procs : ToolStep(p)
    \/ \E p \in Procs \ {Runner} :
        \/ calls < MaxApproverCalls /\ ApproveRequest(p)
        \/ calls < MaxApproverCalls /\ RejectRequest(p)

SpecRerun == Init /\ [][NextRerun]_vars

---------------------------------------------------------------------------
(* The ticket manager alone, with several tickets and several snapshots *)

StoreTicketIds == 1..MaxStoreTickets

ImpactSnapshots ==
    {ImpactSnapshot("CRITICAL", PyInt("10000")),
     ImpactSnapshot("HIGH", PyStr("unknown")),
     ImpactSnapshot("LOW", PyInt("1"))}

TicketCreate(p) ==
    /\ calls < MaxStoreCalls
    /\ nextId < MaxStoreTickets
    /\ \E sql \in SqlInputs, impact \in ImpactSnapshots, up \in BOOLEAN :
         CreateCore(p, sql, impact, "user", up)
    /\ calls' = calls + 1
    /\ UNCHANGED <<now, rollbackLog, commits>>

TicketCheck(p) ==
    /\ calls < MaxStoreCalls
    /\ \E k \in StoreTicketIds, up \in BOOLEAN : CheckBody(p, k, up)
    /\ calls' = calls + 1
    /\ UNCHANGED <<now, rollbackLog, nextId, commits>>

TicketUpdate(p) ==
    /\ calls < MaxStoreCalls
    /\ \E k \in StoreTicketIds, new \in UpdateInputs, up \in BOOLEAN :
         UpdateBody(p, k, new, "direct", up)
    /\ calls' = calls + 1
    /\ UNCHANGED <<now, rollbackLog, nextId, commits>>

NextTickets ==
    \/ Tick
    \/ \E k \in StoreTicketIds : RedisExpire(k)
    \/ \E p \in Procs :
        \/ TicketCreate(p)
        \/ TicketCheck(p)
        \/ TicketUpdate(p)
        \/ UpdWrite(p)

SpecTickets == Init /\ [][NextTickets]_vars

---------------------------------------------------------------------------
(* Text: the str operations the impact analysis applies to a statement.
   A text is a sequence of one-character strings. *)

UpperCase == <<"A", "B", "C", "D", "E", "F", "G", "H", "I", "J", "K", "L", "M", "N", "O", "P", "Q", "R", "S", "T", "U", "V", "W", "X", "Y", "Z">>
LowerCase == <<"a", "b", "c", "d", "e", "f", "g", "h", "i", "j", "k", "l", "m", "n", "o", "p", "q", "r", "s", "t", "u", "v", "w", "x", "y", "z">>
Digits == <<"0", "1", "2", "3", "4", "5", "6", "7", "8", "9">>

LowerChar(c) ==
    IF \E i \in 1..Len(UpperCase) : UpperCase[i] = c
    THEN LowerCase[CHOOSE i \in 1..Len(UpperCase) : UpperCase[i] = c]
    ELSE c

UpperChar(c) ==
    IF \E i \in 1..Len(LowerCase) : LowerCase[i] = c
    THEN UpperCase[CHOOSE i \in 1..Len(LowerCase) : LowerCase[i] = c]
    ELSE c

(* str.lower, str.upper *)
Lower(t) == [i \in 1..Len(t) |-> LowerChar(t[i])]
Upper(t) == [i \in 1..Len(t) |-> UpperChar(t[i])]

(* str.find, 1-based; 0 when pat does not occur *)
Find(t, pat) ==
    LET at == {i \in 1..(Len(t) - Len(pat) + 1) : SubSeq(t, i, i + Len(pat) - 1) = pat}
    IN IF at = {} THEN 0 ELSE CHOOSE i \in at : \A j \in at : i <= j

(* pat in t *)
Contains(t, pat) == Find(t, pat) # 0

(* str.startswith *)
StartsWith(t, pat) == Len(t) >= Len(pat) /\ SubSeq(t, 1, Len(pat)) = pat

RECURSIVE LStrip(_)
LStrip(t) == IF t # <<>> /\ Head(t) = " " THEN LStrip(Tail(t)) ELSE t

RECURSIVE RStrip(_)
RStrip(t) ==
    IF t # <<>> /\ t[Len(t)] = " " THEN RStrip(SubSeq(t, 1, Len(t) - 1)) ELSE t

(* str.strip *)
Strip(t) == RStrip(LStrip(t))

RECURSIVE SplitWords(_, _)
SplitWords(t, word) ==
    IF t = <<>> THEN (IF word = <<>> THEN <<>> ELSE <<word>>)
    ELSE IF Head(t) = " "
         THEN (IF word = <<>> THEN <<>> ELSE <<word>>) \o SplitWords(Tail(t), <<>>)
         ELSE SplitWords(Tail(t), Append(word, Head(t)))

(* str.split(): the words between runs of blanks *)
Split(t) == SplitWords(t, <<>>)

(* str.split(pat): the pieces between the occurrences of pat *)
RECURSIVE SplitBy(_, _)
SplitBy(t, pat) ==
    LET i == Find(t, pat)
    IN IF i = 0 THEN <<t>>
       ELSE <<SubSeq(t, 1, i - 1)>> \o SplitBy(SubSeq(t, i + Len(pat), Len(t)), pat)

(* ' '.join(words) *)
RECURSIVE Join(_)
Join(words) ==
    IF words = <<>> THEN <<>>
    ELSE IF Len(words) = 1 THEN Head(words)
    ELSE Head(words) \o <<" ">> \o Join(Tail(words))

(* str.replace(old, new, 1) *)
ReplaceFirst(t, old, new) ==
    LET i == Find(t, old)
    IN IF i = 0 THEN t
       ELSE SubSeq(t, 1, i - 1) \o new \o SubSeq(t, i + Len(old), Len(t))

IsDigits(w) ==
    w # <<>> /\ \A i \in 1..Len(w) : \E d \in 1..Len(Digits) : Digits[d] = w[i]

DigitValue(c) == (CHOOSE d \in 1..Len(Digits) : Digits[d] = c) - 1

RECURSIVE DigitsValue(_, _)
DigitsValue(w, acc) ==
    IF w = <<>> THEN acc ELSE DigitsValue(Tail(w), 10 * acc + DigitValue(Head(w)))

(* int(w): ok is FALSE where int raises ValueError *)
ParseInt(w) ==
    IF IsDigits(w) THEN [ok |-> TRUE, v |-> DigitsValue(w, 0)]
    ELSE IF Len(w) > 1 /\ Head(w) = "-" /\ IsDigits(Tail(w))
         THEN [ok |-> TRUE, v |-> 0 - DigitsValue(Tail(w), 0)]
    ELSE IF Len(w) > 1 /\ Head(w) = "+" /\ IsDigits(Tail(w))
         THEN [ok |-> TRUE, v |-> DigitsValue(Tail(w), 0)]
    ELSE [ok |-> FALSE, v |-> 0]

Min(a, b) == IF a <= b THEN a ELSE b

(* words of the statements *)
KwDelete == <<"D", "E", "L", "E", "T", "E">>
KwFrom == <<"F", "R", "O", "M">>
KwUpdate == <<"U", "P", "D", "A", "T", "E">>
KwSet == <<"S", "E", "T">>
KwInsert == <<"I", "N", "S", "E", "R", "T">>
KwInto == <<"I", "N", "T", "O">>
KwValues == <<"V", "A", "L", "U", "E", "S">>
KwSelect == <<"S", "E", "L", "E", "C", "T">>
KwWhere == <<"W", "H", "E", "R", "E">>
KwLimit == <<"L", "I", "M", "I", "T">>

---------------------------------------------------------------------------
(* Impact analysis: ImpactAnalysisAgent (agents/impact_analysis.py) and
   analyze_query_impact with its plan probe (tools/impact_execution.py) *)

(* a statement as the query builder means it: kind, target table, an
   optional condition (col = <<>> when there is none) and an optional
   operand of LIMIT (<<>> when there is none) *)
NoCond == [col |-> <<>>, op |-> <<>>, val |-> <<>>]
Cond(col, op, val) == [col |-> col, op |-> op, val |-> val]

TableUsers == <<"u", "s", "e", "r", "s">>
TableItems == <<"i", "t", "e", "m", "s">>

IdEquals == Cond(<<"i", "d">>, <<"=">>, <<"5">>)
PaidEquals == Cond(<<"p", "a", "i", "d">>, <<"=">>, <<"0">>)
XGreater == Cond(<<"x">>, <<">">>, <<"1">>)

StatementKinds == {"DELETE", "UPDATE", "INSERT", "SELECT"}

LimitOperands == {<<"5">>, <<"5", "0", "0">>, <<"A", "L", "L">>, <<"-", "5">>}

Statements ==
    [kind : StatementKinds, table : {TableUsers, TableItems},
     cond : {NoCond, IdEquals, PaidEquals, XGreater}, limit : {<<>>}]
    \cup [kind : {"DELETE"}, table : {TableItems}, cond : {XGreater},
          limit : LimitOperands]

(* the text of a statement, words separated by one blank *)
Render(st) ==
    LET head == CASE st.kind = "DELETE" -> <<KwDelete, KwFrom, st.table>>
                  [] st.kind = "UPDATE" ->
                        <<KwUpdate, st.table, KwSet, <<"x">>, <<"=">>, <<"1">>>>
                  [] st.kind = "INSERT" ->
                        IF st.cond = NoCond
                        THEN <<KwInsert, KwInto, st.table, KwValues, <<"(", "1", ")">>>>
                        ELSE <<KwInsert, KwInto, st.table, KwSelect, <<"*">>,
                               KwFrom, <<"s", "r", "c">>>>
                  [] OTHER -> <<KwSelect, <<"*">>, KwFrom, st.table>>
        where == IF st.cond = NoCond THEN <<>>
                 ELSE <<KwWhere, st.cond.col, st.cond.op, st.cond.val>>
        limit == IF st.limit = <<>> THEN <<>> ELSE <<KwLimit, st.limit>>
    IN Join(head \o where \o limit)

(* a row estimate: an int, or the str "unknown" *)
Rows(n) == [str |-> FALSE, n |-> n]
UnknownRows == [str |-> TRUE, n |-> 0]

(* _get_query_type of the agent *)
AgentQueryType(sql) ==
    LET query_upper == Upper(Strip(sql))
    IN IF StartsWith(query_upper, KwUpdate) THEN "UPDATE"
       ELSE IF StartsWith(query_upper, KwDelete) THEN "DELETE"
       ELSE IF StartsWith(query_upper, KwInsert) THEN "INSERT"
       ELSE "UNKNOWN"

(* _extract_affected_tables: the table the intent mentions (<<>> when it
   mentions none), then the one parsed from the statement if it is another *)
ExtractAffectedTables(sql, table_mentioned) ==
    LET query_upper == Upper(sql)
        parts == Split(query_upper)
        mentioned == IF table_mentioned = <<>> THEN <<>> ELSE <<table_mentioned>>
        word == IF StartsWith(query_upper, KwUpdate) THEN 2
                ELSE IF StartsWith(query_upper, Join(<<KwDelete, KwFrom>>)) THEN 3
                ELSE IF StartsWith(query_upper, Join(<<KwInsert, KwInto>>)) THEN 3
                ELSE 0
        parsed == IF word # 0 /\ Len(parts) >= word
                     /\ mentioned # <<Lower(parts[word])>>
                  THEN <<Lower(parts[word])>> ELSE <<>>
        affected_tables == mentioned \o parsed
    IN IF affected_tables = <<>> THEN <<<<"u", "n", "k", "n", "o", "w", "n", "_", "t", "a", "b", "l", "e">>>> ELSE affected_tables

(* the estimate for a statement with a LIMIT: its operand, at most 100, or
   50 when int() or the indexing raises *)
LimitEstimate(query_lower) ==
    LET limit_parts == SplitBy(query_lower, <<"l", "i", "m", "i", "t">>)
        words == Split(Strip(limit_parts[2]))
    IN IF words = <<>> THEN 50
       ELSE IF ParseInt(words[1]).ok THEN Min(ParseInt(words[1]).v, 100)
       ELSE 50

(* a variant that takes a condition to be on the id only when the word id
   stands alone *)
IdWordOnly(query_lower) ==
    \E i \in 1..Len(Split(query_lower)) : Split(query_lower)[i] = <<"i", "d">>

(* 'id =' in query_lower or 'id=' in query_lower *)
MentionsIdEquality(query_lower) ==
    Contains(query_lower, <<"i", "d", " ", "=">>) \/ Contains(query_lower, <<"i", "d", "=">>)

(* _estimate_rows_heuristic *)
EstimateRowsHeuristic(sql, query_type) ==
    LET query_lower == Lower(sql)
    IN IF ~Contains(query_lower, <<"w", "h", "e", "r", "e">>)
       THEN IF query_type = "DELETE" THEN 10000
            ELSE IF query_type = "UPDATE" THEN 5000
            ELSE IF query_type = "INSERT" THEN 1
            ELSE 50
       ELSE IF MentionsIdEquality(query_lower) THEN 1
       ELSE IF Contains(query_lower, <<"l", "i", "m", "i", "t">>) THEN LimitEstimate(query_lower)
       ELSE 100

(* _estimate_query_impact *)
EstimateQueryImpact(sql, query_type) ==
    [method |-> "heuristic_estimation",
     estimated_rows |-> Rows(EstimateRowsHeuristic(sql, query_type)),
     confidence |-> "low"]

(* a variant in which a large count scores less than a medium one *)
WrappedBaseScore(rows) ==
    IF rows.str THEN 75
    ELSE IF rows.n <= 10 THEN 25
    ELSE IF rows.n <= 100 THEN 50
    ELSE IF rows.n <= 1000 THEN 75
    ELSE 0

(* risk_thresholds and the base score of _classify_risk *)
BaseScore(rows) ==
    IF rows.str THEN 75
    ELSE IF rows.n <= 10 THEN 25
    ELSE IF rows.n <= 100 THEN 50
    ELSE IF rows.n <= 1000 THEN 75
    ELSE 100

(* a variant that counts an INSERT as riskier than an UPDATE *)
InsertPenalty(query_type) ==
    IF query_type = "DELETE" THEN 10
    ELSE IF query_type = "INSERT" THEN 5
    ELSE 0

(* the adjustment for the kind of the statement *)
TypeAdjustment(query_type) ==
    IF query_type = "DELETE" THEN 10
    ELSE IF query_type = "INSERT" THEN 0 - 5
    ELSE 0

CriticalTables == {<<"u", "s", "e", "r", "s">>, <<"a", "c", "c", "o", "u", "n", "t", "s">>, <<"p", "a", "y", "m", "e", "n", "t", "s">>, <<"o", "r", "d", "e", "r", "s">>}

(* the adjustment for the affected tables: 15 for each critical one *)
TableAdjustment(affected_tables) ==
    15 * Cardinality({i \in 1..Len(affected_tables) :
                        \E critical \in CriticalTables :
                            Contains(Lower(affected_tables[i]), critical)})

(* a variant whose HIGH starts above 70 *)
HighAbove70(risk_score) ==
    IF risk_score >= 90 THEN "CRITICAL"
    ELSE IF risk_score > 70 THEN "HIGH"
    ELSE IF risk_score >= 40 THEN "MEDIUM"
    ELSE "LOW"

(* the level of an adjusted score *)
LevelOfScore(risk_score) ==
    IF risk_score >= 90 THEN "CRITICAL"
    ELSE IF risk_score >= 70 THEN "HIGH"
    ELSE IF risk_score >= 40 THEN "MEDIUM"
    ELSE "LOW"

(* a variant that asks for approval from MEDIUM on *)
ApprovalFromMedium(level) == level \in {"MEDIUM", "HIGH", "CRITICAL"}

(* requires_approval of the classification *)
RequiresApproval(level) == level \in {"HIGH", "CRITICAL"}

(* _classify_risk, given the sum of its two adjustments *)
Classification(estimated_rows, adjustment) ==
    LET risk_score == BaseScore(estimated_rows) + adjustment
        risk_level == LevelOfScore(risk_score)
    IN [level |-> risk_level, score |-> Min(risk_score, 100),
        estimated_rows |-> estimated_rows,
        requires_approval |-> RequiresApproval(risk_level)]

(* _classify_risk *)
ClassifyRisk(estimated_rows, query_type, affected_tables) ==
    Classification(estimated_rows,
                   TypeAdjustment(query_type) + TableAdjustment(affected_tables))

NoEstimate == [method |-> "none", estimated_rows |-> UnknownRows,
               confidence |-> "none"]
NoClassification == [level |-> "UNKNOWN", score |-> 0,
                     estimated_rows |-> UnknownRows, requires_approval |-> FALSE]

NoAgentAnalysis ==
    [status |-> "none", query_type |-> "UNKNOWN", affected_tables |-> <<>>,
     impact_estimate |-> NoEstimate, risk_classification |-> NoClassification]

(* ImpactAnalysisAgent.analyze_query_impact; schema_ok: fetch_schema_context
   succeeded *)
AgentAnalysis(sql, table_mentioned, schema_ok) ==
    LET query_type == AgentQueryType(sql)
        affected_tables == ExtractAffectedTables(sql, table_mentioned)
        impact_estimate == EstimateQueryImpact(sql, query_type)
        failed == [status |-> "error", query_type |-> query_type,
                   affected_tables |-> <<>>, impact_estimate |-> NoEstimate,
                   risk_classification |-> NoClassification]
    IN IF query_type \notin {"UPDATE", "DELETE", "INSERT"} THEN failed
       ELSE IF ~schema_ok THEN failed
       ELSE [status |-> "success", query_type |-> query_type,
             affected_tables |-> affected_tables,
             impact_estimate |-> impact_estimate,
             risk_classification |->
                 ClassifyRisk(impact_estimate.estimated_rows, query_type,
                              affected_tables)]

(* _convert_to_explain_query; <<>> stands for None *)
ConvertToExplainQuery(sql) ==
    LET query_upper == Upper(Strip(sql))
        parts == Split(sql)
        wheres == {i \in 1..Len(parts) : Upper(parts[i]) = KwWhere}
        where_index == IF wheres = {} THEN 0 - 1
                       ELSE (CHOOSE i \in wheres : \A j \in wheres : i <= j) - 1
    IN IF StartsWith(query_upper, KwUpdate)
       THEN IF Len(parts) < 2 THEN <<>>
            ELSE IF where_index > 0
            THEN Join(<<KwSelect, <<"*">>, KwFrom, parts[2],
                        Join(SubSeq(parts, where_index + 1, Len(parts)))>>)
            ELSE Join(<<KwSelect, <<"*">>, KwFrom, parts[2]>>)
       ELSE IF StartsWith(query_upper, KwDelete)
       THEN IF Contains(query_upper, KwFrom)
            THEN ReplaceFirst(sql, KwDelete, Join(<<KwSelect, <<"*">>>>))
            ELSE <<>>
       ELSE <<>>

(* what _get_explain_analysis returns: an error, or success with the row
   count of the plan, which _extract_rows_from_plan may not find (None) *)
ExplainError == [status |-> "error", none |-> TRUE, rows |-> 0]
ExplainSuccess(none, n) == [status |-> "success", none |-> none, rows |-> n]

ExplainOutcomes(sql) ==
    IF ConvertToExplainQuery(sql) = <<>> THEN {ExplainError}
    ELSE {ExplainError, ExplainSuccess(TRUE, 0)}
            \cup {ExplainSuccess(FALSE, n) : n \in 0..MaxPlanRows}

(* a variant that fails the analysis when the probe failed *)
FailOnProbeError(agent, explain) ==
    IF explain.status # "success"
    THEN [agent EXCEPT !.status = "error"]
    ELSE agent

(* analyze_query_impact of the tools: steps 2 and 3, the agent's analysis
   combined with the probe *)
CombineAnalysis(agent, explain) ==
    IF explain.status = "success" /\ ~explain.none
    THEN [agent EXCEPT
            !.impact_estimate = [method |-> "explain_analyze",
                                 estimated_rows |-> Rows(explain.rows),
                                 confidence |-> "high"],
            !.risk_classification =
                ClassifyRisk(Rows(explain.rows), agent.query_type,
                             agent.affected_tables)]
    ELSE agent

(* the analysis starts: the agent's part *)
AgentAnalyze ==
    /\ analysis.phase = "input"
    /\ \E schema_ok \in BOOLEAN :
         analysis' = [analysis EXCEPT
                        !.phase = "agent",
                        !.agent = AgentAnalysis(analysis.sql,
                                                analysis.table_mentioned,
                                                schema_ok),
                        !.result = @]
    /\ UNCHANGED <<now, store, rollbackLog, nextId, commits, calls, call, ret, wf>>

(* the agent's analysis is returned as it is when it failed; otherwise the
   plan is probed and the two are combined *)
ExplainProbe ==
    /\ analysis.phase = "agent"
    /\ IF analysis.agent.status # "success"
       THEN analysis' = [analysis EXCEPT !.phase = "analyzed",
                                          !.result = analysis.agent]
       ELSE \E explain \in ExplainOutcomes(analysis.sql) :
               analysis' = [analysis EXCEPT
                              !.phase = "analyzed",
                              !.explain = explain,
                              !.result = CombineAnalysis(analysis.agent, explain)]
    /\ UNCHANGED <<now, store, rollbackLog, nextId, commits, calls, call, ret, wf>>

(* _analyze_impact_node and _check_approval_required_node of a workflow,
   on the analysis returned *)
CheckApprovalRequired ==
    /\ analysis.phase = "analyzed"
    /\ analysis.result.status = "success"
    /\ \E flow \in Flows :
         LET level == analysis.result.risk_classification.level
         IN analysis' = [analysis EXCEPT
                           !.phase = "checked", !.flow = flow,
                           !.risk_level = level,
                           !.approval_required =
                               IF flow = "unified"
                               THEN UnifiedApprovalRequired(level)
                               ELSE DestructiveApprovalRequired(level)]
    /\ UNCHANGED <<now, store, rollbackLog, nextId, commits, calls, call, ret, wf>>

TablesMentioned == {<<>>, TableUsers}

InitImpact ==
    /\ now = 0
    /\ store = EmptyStore
    /\ rollbackLog = {}
    /\ nextId = 0
    /\ commits = [t \in IssuableIds |-> 0]
    /\ calls = 0
    /\ call = [p \in Procs |-> IdleCall]
    /\ ret = NoRet
    /\ wf = [p \in Procs |-> NoRun]
    /\ \E st \in Statements, table_mentioned \in TablesMentioned :
         analysis = [phase |-> "input", stmt |-> st, sql |-> Render(st),
                     table_mentioned |-> table_mentioned,
                     agent |-> NoAgentAnalysis, explain |-> ExplainError,
                     result |-> NoAgentAnalysis, flow |-> "none",
                     risk_level |-> "UNKNOWN", approval_required |-> FALSE]

NextImpact ==
    \/ AgentAnalyze
    \/ ExplainProbe
    \/ CheckApprovalRequired

SpecImpact == InitImpact /\ [][NextImpact]_vars

---------------------------------------------------------------------------
(* Properties of the ticket manager, the engine and the rollback logger *)

TxPcs == {"x_statement", "x_commit", "x_rollback", "x_finally"}

PastCheck == {"x_connect"} \cup TxPcs \cup {"u_check", "u_write"}

IsPrefix(s, t) == Len(s) <= Len(t) /\ SubSeq(t, 1, Len(s)) = s

(* C1: execute on a ticket that is found with a stored status other than
   APPROVED returns the not-approved error, opens no database connection and
   runs no statement; only a caller that read APPROVED proceeds to the transaction. *)
C1_NotApprovedNeverRuns ==
    /\ \A p \in Procs :
          (call[p].op = "execute" /\ call[p].pc \in PastCheck)
              => call[p].snap.status = "APPROVED"
    /\ (ret.c.op = "execute" /\ ret.c.snap # NoReq
            /\ ret.c.snap.status # "APPROVED")
          => /\ ret.c.result.status = "error"
             /\ ret.c.result.error_type = "not_approved"
             /\ ret.c.result.current_status = ret.c.snap.status
             /\ ret.c.opened = 0
             /\ ret.c.raised = "none"
             /\ ret.c.outcome = NoOutcome
             /\ ~ret.c.committed

(* an execute call on a ticket that an earlier execute already moved to
   EXECUTED has just been refused *)
C1_Witness ==
    /\ ret.c.op = "execute"
    /\ ret.c.snap # NoReq
    /\ ret.c.snap.status = "EXECUTED"
    /\ ret.c.result.error_type = "not_approved"
    /\ commits[ret.c.tid] = 1

Edges ==
    ({"PENDING_APPROVAL"} \X {"APPROVED", "REJECTED", "EXPIRED"})
    \cup ({"APPROVED"} \X {"EXECUTED", "EXECUTION_FAILED", "EXECUTION_ERROR"})
    \cup (Statuses \X {"ROLLBACK_REQUESTED"})

(* C3: every change of a stored ticket's status follows an edge of the
   ticket state machine: PENDING_APPROVAL to APPROVED, REJECTED or EXPIRED;
   APPROVED to EXECUTED, EXECUTION_FAILED or EXECUTION_ERROR; anything to
   ROLLBACK_REQUESTED. *)
C3_EdgesOnly ==
    [][\A k \in (DOMAIN store) \cap (DOMAIN store') :
          store'[k].req.status # store[k].req.status
              => <<store[k].req.status, store'[k].req.status>> \in Edges]_vars

(* C5: an execute call whose stored statement raised inside the transaction
   returns status error with transaction status rolled_back or
   rollback_failed, carries no rows-affected value, and did not commit. *)
C5_StatementErrorRollsBack ==
    /\ \A p \in Procs :
          call[p].raised = "statement"
              => ~call[p].committed /\ call[p].pc # "x_commit"
    /\ (ret.c.op = "execute" /\ ret.c.raised = "statement")
          => /\ ret.c.result.status = "error"
             /\ ret.c.result.tx \in {"rolled_back", "rollback_failed"}
             /\ ret.c.result.rows = "none"
             /\ ~ret.c.committed

(* an execute call returns after its statement raised and the rollback failed
   too; nothing was committed for the ticket *)
C5_Witness ==
    /\ ret.c.op = "execute"
    /\ ret.c.raised = "statement"
    /\ ret.c.result.tx = "rollback_failed"
    /\ commits[ret.c.tid] = 0

(* C6: the stored history of a ticket only grows: each write of the record
   keeps every entry stored before it, in place. *)
C6_HistoryAppendOnly ==
    [][\A k \in (DOMAIN store) \cap (DOMAIN store') :
          IsPrefix(store[k].req.approval_history,
                   store'[k].req.approval_history)]_vars

(* C7: the APPROVED check and the execution are not atomic.  A commit is
   made by an execute caller on the strength of the status that caller read
   at its own check, once per call, and the ticket is not read again before
   COMMIT: whatever the stored status has become, the commit goes ahead. *)
C7_CommitOnOwnCheck ==
    [][\A t \in TicketIds :
          commits'[t] # commits[t]
              => /\ commits'[t] = commits[t] + 1
                 /\ \E p \in Procs :
                       /\ call[p].op = "execute"
                       /\ call[p].tid = t
                       /\ call[p].pc = "x_commit"
                       /\ call[p].snap.status = "APPROVED"
                       /\ ~call[p].committed
                       /\ call'[p].committed]_vars

(* two execute callers have both committed the statement of one ticket that
   was approved once, and neither has written EXECUTED yet *)
C7_Witness ==
    \E t \in DOMAIN store :
        /\ commits[t] = 2
        /\ store[t].req.status = "APPROVED"
        /\ Len(store[t].req.approval_history) = 1
        /\ \A p \in Procs :
              /\ call[p].op = "execute"
              /\ call[p].tid = t
              /\ call[p].committed
              /\ call[p].pc \in {"x_finally", "u_check", "u_write"}

(* C8: when execute returns for a ticket it read as APPROVED, the stored
   status is EXECUTED if its transaction committed and EXECUTION_FAILED if
   it did not; in particular the ticket is not left APPROVED. *)
C8_StatusReflectsOutcome ==
    [][\A p \in Procs :
          (call[p].op = "execute" /\ call[p].pc \in {"u_check", "u_write"}
                /\ call'[p].pc = "idle")
              => /\ call[p].tid \in DOMAIN store'
                 /\ store'[call[p].tid].req.status =
                       IF call[p].committed THEN "EXECUTED"
                       ELSE "EXECUTION_FAILED"]_vars

(* C9: an execute call opens at most one database connection, holds it only
   inside _execute_with_transaction, and has closed it when it returns, on
   every exit path. *)
C9_OneConnectionClosed ==
    /\ \A p \in Procs :
          /\ call[p].opened <= 1
          /\ call[p].conn => call[p].pc \in TxPcs
          /\ call[p].conn => call[p].opened = 1
    /\ ret.c.opened <= 1
    /\ ~ret.c.conn

(* an execute call has returned after its rollback failed: it opened one
   connection and closed it *)
C9_Witness ==
    /\ ret.c.op = "execute"
    /\ ret.c.opened = 1
    /\ ret.c.outcome.tx = "rollback_failed"
    /\ ~ret.c.conn

(* C10: a checkStatus on a stored ticket after expiresAt deletes the record
   and returns expired; a ticket whose record is gone stays gone, so later
   operations observe not found; a checkStatus on a stored ticket not after
   expiresAt returns found (a check the store did not answer aside). *)
C10_ExpiredThenAbsent ==
    [][/\ \A k \in DOMAIN store :
             (ret' # ret /\ ret'.c.op = "check" /\ ret'.c.tid = k
                    /\ ret'.c.result.status # "error")
                 => IF now > store[k].req.expires_at
                    THEN ret'.c.result.status = "expired"
                         /\ k \notin DOMAIN store'
                    ELSE ret'.c.result.status = "found"
       /\ \A k \in 1..nextId :
             k \notin DOMAIN store => k \notin DOMAIN store']_vars

---------------------------------------------------------------------------
(* Properties of the workflow runs *)

HighRisk(w) == w.flow # "none" /\ w.risk_level \in {"HIGH", "CRITICAL"}

Approvers == {"web_endpoint", "direct"}

(* the record is APPROVED and the entry that made it so names an approver *)
ApprovedByApprover(req) ==
    /\ req.status = "APPROVED"
    /\ req.approval_history # <<>>
    /\ LET last == req.approval_history[Len(req.approval_history)]
       IN last.new_status = "APPROVED" /\ last.approver_info \in Approvers

(* C2: a run whose statement has risk HIGH or CRITICAL touches the database
   only through execute_approved_query on its own ticket, after its wait
   node read that ticket as APPROVED, and the APPROVED record the execution
   read was written by an approver (approve endpoint or a direct status
   update), not by the run; a commit by such a run implies that an approver
   made a call. *)
C2_HighRiskNeedsApprover ==
    LET w == wf[Runner]
        c == call[Runner]
    IN /\ (HighRisk(w) /\ c.pc \in PastCheck /\ c.op = "execute") =>
              /\ w.ticket # 0
              /\ c.tid = w.ticket
              /\ w.approval_status = "APPROVED"
              /\ ApprovedByApprover(c.snap)
       /\ (HighRisk(w) /\ c.pc \in PastCheck) => c.op = "execute"
       /\ (HighRisk(w) /\ \E k \in TicketIds : commits[k] > 0) =>
              /\ calls > 0
              /\ w.approval_status = "APPROVED"

C2_Witness ==
    /\ wf[Runner].flow = "unified"
    /\ wf[Runner].risk_level = "CRITICAL"
    /\ wf[Runner].node = "END"
    /\ wf[Runner].execution_result.status = "success"
    /\ wf[Runner].execution_result.tx = "committed"
    /\ commits[wf[Runner].ticket] = 1
    /\ calls = 1

(* the route the generated statement alone determines *)
SqlRoute(sql) ==
    IF ~ValidateQuery(sql) THEN "error"
    ELSE IF Head(sql) = "SELECT" THEN "select"
    ELSE "destructive"

DestructiveNodes ==
    {"analyze_impact", "check_approval_required", "create_approval",
     "wait_approval", "execute_destructive"}

(* C4: in the unified workflow the route taken after determine_query_type
   is a function of the generated statement alone, whatever the intent's
   kind: a statement that passed validation and is a SELECT is sent to
   execute_select and the run never visits impact analysis, ticket creation
   or destructive execution, creates no ticket and commits nothing; one that
   is an UPDATE/DELETE/INSERT is sent to analyze_impact and the run never
   visits execute_select; a run that failed before the routing visits
   neither. *)
C4_RouteFollowsStatement ==
    LET w == wf[Runner]
    IN (w.flow = "unified") =>
         /\ (w.route = "none") =>
               w.visited \cap (DestructiveNodes \cup {"execute_select", "END"}) = {}
         /\ (w.route # "none") =>
               /\ w.route = SqlRoute(w.sql_query)
               /\ w.node # "determine_query_type"
         /\ (w.route = "select") =>
               /\ "execute_select" \in w.visited
               /\ w.visited \cap DestructiveNodes = {}
               /\ w.ticket = 0 /\ nextId = 0
               /\ \A k \in TicketIds : commits[k] = 0
               /\ call[Runner] = IdleCall
         /\ (w.route = "destructive") =>
               /\ "analyze_impact" \in w.visited
               /\ "execute_select" \notin w.visited
         /\ (w.route = "error") =>
               /\ w.visited \cap (DestructiveNodes \cup {"execute_select"}) = {}
               /\ w.node = "END"

C4_Witness ==
    /\ wf[Runner].flow = "unified"
    /\ wf[Runner].intent = "SELECT"
    /\ wf[Runner].sql_query = UpdateStmt
    /\ wf[Runner].route = "destructive"
    /\ wf[Runner].node = "wait_approval"
    /\ wf[Runner].ticket # 0

---------------------------------------------------------------------------
(* Properties of the ticket manager with several tickets *)

CreateReturned == ret' # ret /\ ret'.c.op = "create"

(* C11: a successful create stores a new record under an id that no earlier
   create was given and that holds no record, leaves every other record as
   it is, and the new record has status PENDING_APPROVAL, an empty history,
   expires_at equal to the creation time plus 24 hours, and a TTL of 24
   hours. *)
C11_CreateStoresFreshTicket ==
    [][(CreateReturned /\ ret'.c.result.status = "success") =>
          LET id == ret'.c.tid
          IN /\ id \notin 1..nextId
             /\ id \notin DOMAIN store
             /\ id \in DOMAIN store'
             /\ \A k \in DOMAIN store : store'[k] = store[k]
             /\ store'[id].req.ticket_id = id
             /\ store'[id].req.status = "PENDING_APPROVAL"
             /\ store'[id].req.approval_history = <<>>
             /\ store'[id].req.created_at = now
             /\ store'[id].req.expires_at = now + TtlTicks
             /\ store'[id].ttl_at = now + TtlTicks]_vars

(* a second ticket has just been created while the first, created a day
   before and approved since, is still stored *)
C11_Witness ==
    /\ ret.c.op = "create"
    /\ ret.c.result.status = "success"
    /\ ret.c.tid = 2
    /\ DOMAIN store = {1, 2}
    /\ store[1].req.status = "APPROVED"
    /\ store[2].req.created_at = 1

SameStatement(a, b) ==
    a.sql_query = b.sql_query /\ a.impact_analysis = b.impact_analysis

(* C12: create followed by check_approval_status on the returned id, before
   expiry, returns found with the sql text and impact snapshot passed to
   create: the record create stores decodes to what create was given, no
   later write of the record changes its statement or snapshot, and a check
   that finds the record returns the decoded stored statement and snapshot. *)
C12_CreateCheckRoundTrip ==
    [][/\ (CreateReturned /\ ret'.c.result.status = "success") =>
              /\ ret'.c.tid \in DOMAIN store'
              /\ SameStatement(JsonLoads(store'[ret'.c.tid].req),
                               ret'.c.result.req)
       /\ \A k \in (DOMAIN store) \cap (DOMAIN store') :
              SameStatement(store'[k].req, store[k].req)
       /\ \A k \in DOMAIN store :
              (ret' # ret /\ ret'.c.op = "check" /\ ret'.c.tid = k
                    /\ ret'.c.result.status = "found")
                 => /\ now <= store[k].req.expires_at
                    /\ SameStatement(ret'.c.result.req, JsonLoads(store[k].req))
       /\ \A k \in DOMAIN store :
              (ret' # ret /\ ret'.c.op = "check" /\ ret'.c.tid = k
                    /\ ret'.c.result.status # "error"
                    /\ now <= store[k].req.expires_at)
                 => ret'.c.result.status = "found"]_vars

(* a check has just found the second ticket, after an update of it, with the
   statement and the snapshot (unknown row estimate, infinite threshold) it
   was created with *)
C12_Witness ==
    /\ ret.c.op = "check"
    /\ ret.c.tid = 2
    /\ ret.c.result.status = "found"
    /\ ret.c.result.req.status = "APPROVED"
    /\ ret.c.result.req.sql_query = UpdateStmt
    /\ ret.c.result.req.impact_analysis = ImpactSnapshot("HIGH", PyStr("unknown"))

---------------------------------------------------------------------------
(* More properties of the workflow runs *)

InError(w) == w.flow # "none" /\ w.workflow_status = "error"

(* C13: once a step of a run has failed, the run's status stays error, and
   no later step of the run does anything outside the run: no schema fetch,
   SQL generation, validation, read execution or impact analysis, no ticket
   tool call (create, check, update, execute), no new ticket and no commit. *)
C13_FailureShortCircuits ==
    [][InError(wf[Runner]) =>
          /\ InError(wf'[Runner])
          /\ wf'[Runner].did = wf[Runner].did
          /\ wf'[Runner].sql_query = wf[Runner].sql_query
          /\ wf'[Runner].ticket = wf[Runner].ticket
          /\ wf'[Runner].execution_result = wf[Runner].execution_result
          /\ call[Runner] = IdleCall
          /\ call'[Runner] = IdleCall
          /\ ret'.proc # Runner
          /\ nextId' = nextId
          /\ commits' = commits]_vars

(* a run that failed at its approval check (the store did not answer) has
   reached the end: its ticket is still stored, pending, nothing committed *)
C13_Witness ==
    /\ InError(wf[Runner])
    /\ wf[Runner].flow = "unified"
    /\ wf[Runner].node = "END"
    /\ wf[Runner].ticket \in DOMAIN store
    /\ store[wf[Runner].ticket].req.status = "PENDING_APPROVAL"
    /\ "wait_approval" \in wf[Runner].visited
    /\ commits[wf[Runner].ticket] = 0

Ended(w) == w.flow # "none" /\ w.node = "END"

TicketPending(w) ==
    /\ w.ticket \in DOMAIN store
    /\ store[w.ticket].req.status = "PENDING_APPROVAL"

(* C14: a run whose statement requires approval and whose ticket is still
   pending has not executed the statement; when such a run has ended, it
   has created exactly one ticket, never reached the execution node and
   holds no execution result, and the ticket is stored as the run created
   it: pending, with an empty history. *)
C14_PendingRunEndsUnexecuted ==
    LET w == wf[Runner]
    IN (w.flow # "none" /\ w.approval_required /\ w.ticket # 0
            /\ TicketPending(w)) =>
          /\ commits[w.ticket] = 0
          /\ call[Runner].pc \notin PastCheck
          /\ store[w.ticket].req.approval_history = <<>>
          /\ Ended(w) =>
                /\ nextId = 1
                /\ w.visited \cap {"execute_destructive", "execute_query"} = {}
                /\ w.execution_result = NoOutcome
                /\ w.workflow_status \in {"timeout", "error"}

(* a CRITICAL run has ended after polling its pending ticket once more than
   the bound, with no approver call made *)
C14_Witness ==
    /\ Ended(wf[Runner])
    /\ wf[Runner].flow = "unified"
    /\ wf[Runner].risk_level = "CRITICAL"
    /\ wf[Runner].workflow_status = "timeout"
    /\ wf[Runner].check_count = MaxChecks + 1
    /\ TicketPending(wf[Runner])
    /\ calls = 0

(* C16: a run that gave up polling its pending ticket ends without
   execution, its result reports an expired or timeout status together with
   the manual approval reference, and the ticket, if nobody else touched it,
   is still stored pending with an empty history. *)
C16_TimeoutReported ==
    LET w == wf[Runner]
    IN (Ended(w) /\ w.workflow_status = "timeout") =>
          /\ FormatResponse(w).status \in {"expired", "timeout"}
          /\ FormatResponse(w).manual_approval_url
          /\ w.execution_result = NoOutcome
          /\ \A k \in TicketIds : commits[k] = 0
          /\ (calls = 0 /\ w.ticket \in DOMAIN store) =>
                /\ store[w.ticket].req.status = "PENDING_APPROVAL"
                /\ store[w.ticket].req.approval_history = <<>>

(* C15: a run whose statement is LOW or MEDIUM and needs no approval, and
   whose result reports success, has a ticket of its own on which the
   statement was committed once, and that ticket, if it is still stored and
   nobody else touched it, has status EXECUTED. *)
C15_AutoPathExecutes ==
    LET w == wf[Runner]
    IN (Ended(w) /\ w.risk_level \in {"LOW", "MEDIUM"} /\ ~w.approval_required
            /\ FormatResponse(w).status = "success") =>
          /\ w.ticket # 0
          /\ commits[w.ticket] = 1
          /\ (calls = 0 /\ w.ticket \in DOMAIN store) =>
                store[w.ticket].req.status = "EXECUTED"

(* C17: a run started again with the same statement and the same risk
   level, after the run before
   ended with a pending ticket that was then approved or rejected, creates
   no ticket of its own; when it ends without an error and the earlier
   ticket is rejected its result is rejected and nothing of that ticket
   was committed, and when the earlier ticket was approved and is not
   rejected its result is success and the statement was committed once on
   that ticket. *)
C17_RerunPicksUpTicket ==
    LET w == wf[Runner]
    IN (w.flow # "none" /\ w.run > 1 /\ Get(w.prev).sql_query = w.sql_query
            /\ Get(w.prev).impact_analysis.level = PyStr(w.risk_level)) =>
          /\ w.ticket \in {0, w.prev}
          /\ (Ended(w) /\ ~Failed(w)) =>
                IF Get(w.prev).status = "REJECTED"
                THEN /\ FormatResponse(w).status = "rejected"
                     /\ commits[w.prev] = 0
                ELSE w.prev_status = "APPROVED" =>
                        /\ FormatResponse(w).status = "success"
                        /\ commits[w.prev] = 1

(* C18: a check of a stored ticket that was updated successfully, made no
   later than 24 hours after that update and answered by the store, returns
   found. *)
C18_UpdateSlidesExpiry ==
    [][\A k \in DOMAIN store :
          (ret' # ret /\ ret'.c.op = "check" /\ ret'.c.tid = k
                /\ ret'.c.result.status # "error"
                /\ store[k].req.approval_history # <<>>
                /\ now <= store[k].req.updated_at + TtlTicks)
             => ret'.c.result.status = "found"]_vars

(* C19: a rollback call for an id with no stored ticket returns status
   "logged", whatever its info argument, and its rollback record carries
   the retrieval-error note. *)
C19_RollbackOfMissingTicket ==
    [][(ret' # ret /\ ret'.c.op = "rollback" /\ ret'.c.snap = NoReq
            /\ ret'.c.tid \notin DOMAIN store)
          => /\ ret'.c.result.status = "logged"
             /\ ret'.c.result.retrieval_error = TRUE]_vars

----------------------------------------------------------------------------
(* More properties of the rollback logger *)

(* the step is one of a rollback call of p: it starts it, continues it or
   returns from it *)
RollbackStep(p) ==
    \/ call'[p] # call[p] /\ (call[p].op = "rollback" \/ call'[p].op = "rollback")
    \/ ret' # ret /\ ret'.proc = p /\ ret'.c.op = "rollback"

RollbackTicket(p) ==
    IF call[p].op = "rollback" THEN call[p].tid
    ELSE IF call'[p].op = "rollback" THEN call'[p].tid
    ELSE ret'.c.tid

(* C20: no step of a rollback call holds or opens a database connection or
   commits anything; it issues no ticket and leaves every other ticket
   alone, writes no audit record but rollback_log:<ticketId>, and of its own
   ticket it keeps the statement, the impact snapshot, the id, the requester
   and the creation and expiry times. *)
C20_RollbackLeavesDataAlone ==
    [][\A p \in Procs :
          RollbackStep(p) =>
             LET k == RollbackTicket(p)
             IN /\ commits' = commits
                /\ nextId' = nextId
                /\ call'[p].opened = 0 /\ ~call'[p].conn /\ ~call'[p].committed
                /\ ret'.proc = p =>
                      /\ ret'.c.opened = 0 /\ ~ret'.c.conn /\ ~ret'.c.committed
                      /\ ret'.c.result.tx = "none"
                /\ rollbackLog' \subseteq rollbackLog \cup {k}
                /\ \A j \in (DOMAIN store \cup DOMAIN store') \ {k} :
                      /\ j \in DOMAIN store /\ j \in DOMAIN store'
                      /\ store'[j] = store[j]
                /\ k \in (DOMAIN store \cap DOMAIN store') =>
                      /\ SameStatement(store'[k].req, store[k].req)
                      /\ store'[k].req.ticket_id = store[k].req.ticket_id
                      /\ store'[k].req.requester_info = store[k].req.requester_info
                      /\ store'[k].req.created_at = store[k].req.created_at
                      /\ store'[k].req.expires_at = store[k].req.expires_at]_vars

(* a rollback of an executed ticket has returned: the audit record is
   written, the ticket is ROLLBACK_REQUESTED, the one commit stands *)
C20_Witness ==
    /\ ret.c.op = "rollback"
    /\ ret.c.result.status = "logged"
    /\ ret.c.tid \in rollbackLog
    /\ ret.c.tid \in DOMAIN store
    /\ store[ret.c.tid].req.status = "ROLLBACK_REQUESTED"
    /\ commits[ret.c.tid] = 1

(* C24: update_approval_status works on the record as it is stored when the
   call reads it, which is then present and unexpired; when its write
   succeeds the stored record has the requested status and the history
   read by the call with exactly one more entry, from the status read to
   the requested one, no other key is touched, and a direct call returns
   success.  A direct call that the store answers and that returns at once
   was made on an absent ticket and returns not_found, or on an expired one
   and returns expired; it stores no record (the expired one is deleted). *)
C24_UpdateAppendsOneEntry ==
    [][\A p \in Procs :
          /\ (call[p].pc # "u_write" /\ call'[p].pc = "u_write") =>
                /\ call'[p].tid \in DOMAIN store
                /\ ~IsExpired(store[call'[p].tid].req.expires_at)
                /\ call'[p].usnap = JsonLoads(store[call'[p].tid].req)
                /\ store' = store
          /\ (call[p].pc = "u_write" /\ ret'.proc = p /\ ret'.c.upd = "success") =>
                LET c == call[p]
                IN /\ c.tid \in DOMAIN store'
                   /\ JsonLoads(store'[c.tid].req).status = c.arg
                   /\ JsonLoads(store'[c.tid].req).approval_history =
                         Append(c.usnap.approval_history,
                                [old_status |-> c.usnap.status,
                                 new_status |-> c.arg,
                                 approver_info |-> c.by])
                   /\ \A k \in (DOMAIN store \cup DOMAIN store') \ {c.tid} :
                         k \in DOMAIN store /\ k \in DOMAIN store'
                            /\ store'[k] = store[k]
                   /\ c.op = "update" => ret'.c.result.status = "success"
          /\ (call[p].pc = "idle" /\ ret'.proc = p /\ ret'.c.op = "update"
                /\ ret'.c.upd # "error") =>
                LET k == ret'.c.tid
                IN /\ k \notin DOMAIN store \/ IsExpired(store[k].req.expires_at)
                   /\ ret'.c.result.status =
                         (IF k \in DOMAIN store THEN "expired" ELSE "not_found")
                   /\ store' = Delete(store, k)]_vars

(* a direct update to APPROVED of a pending ticket has returned success: the
   stored ticket is APPROVED and its history is the one entry from
   PENDING_APPROVAL to APPROVED *)
C24_Witness ==
    /\ ret.proc # "none"
    /\ ret.c.op = "update"
    /\ ret.c.upd = "success"
    /\ ret.c.tid \in DOMAIN store
    /\ store[ret.c.tid].req.status = "APPROVED"
    /\ store[ret.c.tid].req.approval_history =
          <<[old_status |-> "PENDING_APPROVAL", new_status |-> "APPROVED",
             approver_info |-> "direct"]>>

(* C25: execute_approved_query called on a stored, unexpired, APPROVED
   ticket whose statement is empty or does not begin with UPDATE, DELETE
   or INSERT returns an error at once: no connection is opened, nothing is
   committed, and the store, with the status and the history of the
   ticket, is as it was. *)
C25_NonMutationNotExecuted ==
    [][\A p \in Procs, k \in TicketIds :
          (/\ call[p].pc = "idle"
           /\ IF ret'.proc = p
              THEN ret'.c.op = "execute" /\ ret'.c.tid = k
              ELSE call'[p].op = "execute" /\ call'[p].tid = k
           /\ k \in DOMAIN store
           /\ ~IsExpired(store[k].req.expires_at)
           /\ store[k].req.status = "APPROVED"
           /\ LET sql == JsonLoads(store[k].req).sql_query
              IN sql = <<>> \/ Head(sql) \notin {"UPDATE", "DELETE", "INSERT"})
          => /\ ret'.proc = p
             /\ ret'.c.result.status = "error"
             /\ ret'.c.opened = 0
             /\ ~ret'.c.conn
             /\ call'[p] = IdleCall
             /\ commits' = commits
             /\ store' = store]_vars

(* execute has just refused an APPROVED ticket that holds a SELECT *)
C25_Witness ==
    /\ ret.proc # "none"
    /\ ret.c.op = "execute"
    /\ ret.c.result.error_type = "invalid_query_type"
    /\ ret.c.opened = 0
    /\ ret.c.tid \in DOMAIN store
    /\ store[ret.c.tid].req.status = "APPROVED"
    /\ JsonLoads(store[ret.c.tid].req).sql_query = SelectStmt
    /\ commits[ret.c.tid] = 0

(* C26: when the status write that follows the execution fails (the store
   does not answer, or the ticket is absent or expired by then), execute
   returns, and what it returns is the outcome of the execution: success
   with transaction status committed and the row count, its transaction
   having committed, or the error with its rollback disposition. *)
C26_StatusWriteFailureSwallowed ==
    [][\A p \in Procs :
          (call[p].op = "execute" /\ call[p].pc \in {"u_check", "u_write"}
              /\ ret'.proc = p /\ ret'.c.upd # "success") =>
             LET c == call[p]
                 result == ret'.c.result
             IN /\ call'[p] = IdleCall
                /\ ret'.c.upd \in {"error", "not_found", "expired"}
                /\ result.status = c.outcome.status
                /\ result.error_type = c.outcome.error_type
                /\ result.tx = c.outcome.tx
                /\ result.rows = c.outcome.rows
                /\ IF c.outcome.status = "success"
                   THEN /\ result.tx = "committed"
                        /\ result.rows \in Rowcounts
                        /\ c.committed
                        /\ commits[c.tid] >= 1
                   ELSE /\ result.status = "error"
                        /\ result.error_type \in ErrorKinds
                        /\ result.tx \in {"rolled_back", "rollback_failed",
                                          "no_connection"}]_vars

(* execute has returned success and committed although the ticket had
   expired before the status write, which found it expired and deleted it *)
C26_Witness ==
    /\ ret.proc # "none"
    /\ ret.c.op = "execute"
    /\ ret.c.upd = "expired"
    /\ ret.c.result.status = "success"
    /\ ret.c.result.tx = "committed"
    /\ ret.c.result.rows \in Rowcounts
    /\ commits[ret.c.tid] = 1
    /\ ret.c.tid \notin DOMAIN store

(* C27: in one run the wait node runs at most MaxChecks + 1 times and the
   check counter never exceeds the number of its runs; a run of the wait
   node of the unified workflow that reads the ticket as PENDING_APPROVAL
   adds exactly one to the check counter and any other run of it leaves
   the counter alone; and every run reaches END, whatever the approver and
   the clock do. *)
C27_RunTerminates ==
    /\ [](\A p \in Procs :
            wf[p].flow # "none" =>
               /\ wf[p].waits <= MaxChecks + 1
               /\ wf[p].check_count <= wf[p].waits)
    /\ [][\A p \in Procs :
            (AtNode(p, "wait_approval") /\ wf'[p] # wf[p]) =>
               /\ wf'[p].waits = wf[p].waits + 1
               /\ wf'[p].check_count =
                     IF /\ wf[p].flow = "unified"
                        /\ ~Failed(wf[p])
                        /\ ret'.proc = p
                        /\ ret'.c.result.status = "found"
                        /\ ret'.c.result.req.status = "PENDING_APPROVAL"
                     THEN wf[p].check_count + 1
                     ELSE wf[p].check_count]_vars
    /\ <>Ended(wf[Runner])

(* a run has ended after the wait node ran MaxChecks + 1 times, reading the
   ticket as pending every time *)
C27_Witness ==
    /\ Ended(wf[Runner])
    /\ wf[Runner].waits = MaxChecks + 1
    /\ wf[Runner].check_count = MaxChecks + 1
    /\ wf[Runner].workflow_status = "timeout"

---------------------------------------------------------------------------
(* Properties of the impact analysis *)

Analyzed == analysis.phase \in {"analyzed", "checked"}
                /\ analysis.result.status = "success"

LevelRank(level) ==
    CASE level = "LOW" -> 1
      [] level = "MEDIUM" -> 2
      [] level = "HIGH" -> 3
      [] level = "CRITICAL" -> 4
      [] OTHER -> 0

(* C21: the classification of the agent and the one returned after the
   probe require approval exactly when their level is HIGH or CRITICAL, and
   for a level among LOW, MEDIUM, HIGH, CRITICAL both workflows decide that
   approval is required exactly when the level is HIGH or CRITICAL. *)
C21_ApprovalIffHighOrCritical ==
    /\ (analysis.phase # "none" /\ analysis.agent.status = "success") =>
          (analysis.agent.risk_classification.requires_approval
              <=> analysis.agent.risk_classification.level \in {"HIGH", "CRITICAL"})
    /\ Analyzed =>
          /\ analysis.result.risk_classification.level
                \in {"LOW", "MEDIUM", "HIGH", "CRITICAL"}
          /\ analysis.result.risk_classification.requires_approval
                <=> analysis.result.risk_classification.level \in {"HIGH", "CRITICAL"}
    /\ analysis.phase = "checked" =>
          /\ analysis.risk_level = analysis.result.risk_classification.level
          /\ analysis.approval_required
                <=> analysis.risk_level \in {"HIGH", "CRITICAL"}

(* the spec's scenario: UPDATE users SET x = 1 WHERE id = 5 is estimated at
   one row, scores 40, is MEDIUM and needs no approval in the unified
   workflow *)
C21_Witness ==
    /\ analysis.phase = "checked"
    /\ analysis.flow = "unified"
    /\ analysis.stmt = [kind |-> "UPDATE", table |-> TableUsers,
                        cond |-> IdEquals, limit |-> <<>>]
    /\ analysis.result.impact_estimate.estimated_rows = Rows(1)
    /\ analysis.result.risk_classification.score = 40
    /\ analysis.risk_level = "MEDIUM"
    /\ ~analysis.approval_required

(* C22: for the kind and the tables of the statement just analysed, no
   smaller row count scores higher or is classified at a higher level than
   the count of the analysis. *)
C22_ScoreMonotoneInRows ==
    (analysis.phase = "analyzed" /\ analysis.result.status = "success"
        /\ ~analysis.result.impact_estimate.estimated_rows.str) =>
       LET adjustment == TypeAdjustment(analysis.result.query_type)
                           + TableAdjustment(analysis.result.affected_tables)
           score == analysis.result.risk_classification.score
           rank == LevelRank(analysis.result.risk_classification.level)
       IN /\ analysis.result.risk_classification =
                Classification(analysis.result.impact_estimate.estimated_rows,
                               adjustment)
          /\ \A r1 \in 0..analysis.result.impact_estimate.estimated_rows.n :
                LET c1 == Classification(Rows(r1), adjustment)
                IN c1.score <= score /\ LevelRank(c1.level) <= rank

(* a count just over 1000 scores more than 1000 does *)
C22_Witness ==
    /\ Analyzed
    /\ analysis.result.impact_estimate.estimated_rows = Rows(1001)
    /\ analysis.result.risk_classification.score = 100
    /\ ClassifyRisk(Rows(1000), analysis.result.query_type,
                    analysis.result.affected_tables).score = 75

(* C23: for the row estimate of the analysis, and for an unknown one, and
   for its tables, a DELETE scores at least what an UPDATE scores and an
   UPDATE at least what an INSERT scores. *)
C23_ScoreOrderedByKind ==
    Analyzed =>
       /\ analysis.result.risk_classification =
             ClassifyRisk(analysis.result.impact_estimate.estimated_rows,
                          analysis.result.query_type,
                          analysis.result.affected_tables)
       /\ \A r \in {analysis.result.impact_estimate.estimated_rows, UnknownRows} :
             LET tables == TableAdjustment(analysis.result.affected_tables)
                 score(kind) ==
                     Classification(r, TypeAdjustment(kind) + tables).score
             IN score("DELETE") >= score("UPDATE")
                   /\ score("UPDATE") >= score("INSERT")

(* a DELETE on a critical table with more than 1000 rows: the score 125 is
   cut to 100 *)
C23_Witness ==
    /\ Analyzed
    /\ analysis.result.query_type = "DELETE"
    /\ analysis.result.impact_estimate.estimated_rows.n > 1000
    /\ TableAdjustment(analysis.result.affected_tables) = 15
    /\ analysis.result.risk_classification.score = 100

(* C28: once the agent's analysis has succeeded the analysis returned
   succeeds whatever the probe did.  For an INSERT no probe is built.  When
   the probe failed or found no row count the result carries the heuristic
   estimate with confidence low and the classification made of it; when it
   found a row count the result carries that count with confidence high
   and the classification made of that count. *)
C28_ProbeNeverFailsAnalysis ==
    (analysis.phase \in {"analyzed", "checked"}
        /\ analysis.agent.status = "success") =>
       /\ analysis.result.status = "success"
       /\ analysis.agent.query_type = "INSERT" => analysis.explain = ExplainError
       /\ IF analysis.explain.status = "success" /\ ~analysis.explain.none
          THEN /\ analysis.result.impact_estimate.estimated_rows
                     = Rows(analysis.explain.rows)
               /\ analysis.result.impact_estimate.confidence = "high"
               /\ analysis.result.risk_classification =
                     ClassifyRisk(Rows(analysis.explain.rows),
                                  analysis.agent.query_type,
                                  analysis.agent.affected_tables)
          ELSE /\ analysis.result.impact_estimate.estimated_rows =
                     Rows(EstimateRowsHeuristic(analysis.sql,
                                                analysis.agent.query_type))
               /\ analysis.result.impact_estimate.method = "heuristic_estimation"
               /\ analysis.result.impact_estimate.confidence = "low"
               /\ analysis.result.risk_classification =
                     ClassifyRisk(analysis.result.impact_estimate.estimated_rows,
                                  analysis.agent.query_type,
                                  analysis.agent.affected_tables)

(* a DELETE by id, estimated at one row and LOW by the heuristic, for which
   the plan counts 1001 rows: the result is CRITICAL *)
C28_Witness ==
    /\ analysis.phase = "analyzed"
    /\ analysis.agent.risk_classification.level = "LOW"
    /\ analysis.agent.impact_estimate.estimated_rows = Rows(1)
    /\ analysis.explain = ExplainSuccess(FALSE, 1001)
    /\ analysis.result.impact_estimate.confidence = "high"
    /\ analysis.result.risk_classification.level = "CRITICAL"

(* the decision table over the features of a statement: whether it has a
   condition, whether the condition tests the id column for equality,
   whether it has a LIMIT, and its kind *)
DecisionTable(st) ==
    IF st.cond = NoCond
    THEN CASE st.kind = "DELETE" -> 10000
           [] st.kind = "UPDATE" -> 5000
           [] st.kind = "INSERT" -> 1
           [] OTHER -> 50
    ELSE IF st.cond.col = <<"i", "d">> /\ st.cond.op = <<"=">> THEN 1
    ELSE IF st.limit # <<>>
    THEN IF ParseInt(st.limit).ok THEN Min(ParseInt(st.limit).v, 100) ELSE 50
    ELSE 100

(* C29: the heuristic estimate of the agent is the one the decision table
   gives for the statement; in particular it is 1 for a statement with a
   condition only when the condition tests the id column for equality. *)
C29_HeuristicIsDecisionTable ==
    (analysis.phase # "none" /\ analysis.agent.status = "success") =>
       /\ analysis.agent.impact_estimate.estimated_rows
             = Rows(DecisionTable(analysis.stmt))
       /\ (analysis.stmt.cond # NoCond
             /\ analysis.agent.impact_estimate.estimated_rows = Rows(1))
          => (analysis.stmt.cond.col = <<"i", "d">>
                /\ analysis.stmt.cond.op = <<"=">>)

---------------------------------------------------------------------------
(* Properties of the validation of the generated statement *)

(* C30: the validation node fails the run when the statement is empty,
   when its first word is not SELECT, UPDATE, DELETE or INSERT, or when it
   is a SELECT that contains a dangerous keyword; and it does not fail the
   run for a non-empty UPDATE, DELETE or INSERT, which goes on to the next
   node unfailed. *)
C30_ValidationRejects ==
    [][\A p \in Procs :
          (AtNode(p, "validate_query") /\ ~Failed(wf[p]) /\ wf'[p] # wf[p]) =>
             LET sql == wf[p].sql_query
             IN /\ (sql = <<>>
                      \/ Head(sql) \notin {"SELECT", "UPDATE", "DELETE", "INSERT"}
                      \/ (Head(sql) = "SELECT"
                            /\ \E kw \in DangerousKeywords : Mentions(sql, kw)))
                   => Failed(wf'[p])
                /\ (sql # <<>> /\ Head(sql) \in {"UPDATE", "DELETE", "INSERT"})
                   => (~Failed(wf'[p])
                         /\ wf'[p].node = NextAfterValidate(wf[p]))]_vars

---------------------------------------------------------------------------
(* Properties of the callers of the tools, under any interleaving *)

(* caller p's call returns in this step with status error, having opened no
   connection, and the store is as it was *)
ErrorAndNothingWritten(p) ==
    /\ ret'.proc = p
    /\ ret'.c.result.status = "error"
    /\ ret'.c.opened = 0
    /\ call'[p] = IdleCall
    /\ store' = store
    /\ commits' = commits

(* C31: a create, a check, an update or an execute whose first command the
   store does not answer, and an update whose check or whose write the
   store does not answer, return an error in that step with the error type
   of the store failure; no connection is opened and the store is left as
   it was, so no ticket is created or changed. *)
C31_StoreUnreachable ==
    [][\A p \in Procs :
          /\ (\E sql \in SqlInputs, impact \in ImpactInputs :
                 CreateBody(p, sql, impact, "user", FALSE))
                => (ErrorAndNothingWritten(p) /\ nextId' \notin DOMAIN store'
                      /\ ret'.c.result.error_type = "creation_error")
          /\ \A k \in TicketIds :
                /\ CheckBody(p, k, FALSE)
                      => (ErrorAndNothingWritten(p)
                            /\ ret'.c.result.error_type = "check_error")
                /\ (\E new \in UpdateInputs : UpdateBody(p, k, new, "direct", FALSE))
                      => (ErrorAndNothingWritten(p)
                            /\ ret'.c.result.error_type = "update_error")
                /\ ExecuteBody(p, k, "executor", FALSE)
                      => ErrorAndNothingWritten(p)
          /\ (call[p].op = "update" /\ call[p].pc = "u_write"
                /\ Deliver(p, UpdReturn([call[p] EXCEPT !.upd = "error"])))
                => (ErrorAndNothingWritten(p)
                      /\ ret'.c.result.error_type = "update_error")]_vars

(* execute has returned an error without a connection for a ticket that is
   stored, unexpired and APPROVED with an UPDATE: the store did not answer *)
C31_Witness ==
    /\ ret.proc # "none"
    /\ ret.c.op = "execute"
    /\ ret.c.result.status = "error"
    /\ ret.c.opened = 0
    /\ ret.c.tid \in DOMAIN store
    /\ ~IsExpired(store[ret.c.tid].req.expires_at)
    /\ store[ret.c.tid].req.status = "APPROVED"
    /\ JsonLoads(store[ret.c.tid].req).sql_query = UpdateStmt
    /\ commits[ret.c.tid] = 0

(* the step just taken was the run's poll of its ticket, and the store answered *)
PollAnswered(w) ==
    /\ w.flow = "destructive"
    /\ w.approval_required
    /\ w.ticket # 0
    /\ w.ticket \in DOMAIN store
    /\ ret.proc = Runner
    /\ ret.c.op = "check"
    /\ ret.c.tid = w.ticket
    /\ ret.c.result.status = "found"

(* C32: a run of the destructive workflow whose statement requires approval
   and whose ticket is found PENDING_APPROVAL does not fail: if it ends, its
   result has status pending_approval; and a run whose ticket is found
   APPROVED goes on to the execution node. *)
C32_PendingRunReportsPending ==
    LET w == wf[Runner]
    IN PollAnswered(w) =>
          /\ ~Failed(w)
          /\ (store[w.ticket].req.status = "PENDING_APPROVAL" /\ Ended(w))
                => FormatResponse(w).status = "pending_approval"
          /\ store[w.ticket].req.status = "APPROVED" => w.node = "execute_query"

(* some entry of the history records a rejection *)
WasRejected(req) ==
    \E i \in DOMAIN req.approval_history :
        req.approval_history[i].new_status = "REJECTED"

(* C33: a ticket that has once been REJECTED is never committed afterwards:
   no execute call that read the ticket with a rejection in its history
   commits the ticket's statement. *)
C33_RejectedNeverCommitted ==
    [][\A p \in Procs :
          (call[p].op = "execute" /\ call[p].pc = "x_commit"
              /\ WasRejected(call[p].snap))
             => commits'[call[p].tid] = commits[call[p].tid]]_vars

(* the ticket is stored with a status a reject or rollback caller wrote *)
Withdrawn(k) ==
    /\ k \in DOMAIN store
    /\ store[k].req.status \in {"REJECTED", "ROLLBACK_REQUESTED"}

(* C34: the transaction of a ticket is committed only while the ticket is
   stored APPROVED: no step commits the statement of a ticket that is stored
   REJECTED or ROLLBACK_REQUESTED, and no step replaces such a status by
   EXECUTED. *)
C34_CommitOnlyWhileApproved ==
    [][\A k \in TicketIds :
          Withdrawn(k) =>
             /\ commits'[k] = commits[k]
             /\ k \in DOMAIN store' => store'[k].req.status # "EXECUTED"]_vars

---------------------------------------------------------------------------
(* Sequential callers: a call starts when no other call is in flight, every
   Redis command is answered, and the clock stands still, so no ticket
   expires *)

AllIdle == \A q \in Procs : Ready(q)

SeqFree(p) == wf[p].flow = "none" /\ calls < MaxSeqCalls /\ AllIdle

SeqCreate(p) ==
    /\ SeqFree(p)
    /\ \E sql \in SqlInputs, impact \in ImpactInputs :
         CreateBody(p, sql, impact, "user", TRUE)
    /\ calls' = calls + 1
    /\ UNCHANGED <<now, rollbackLog, commits>>

SeqUpdate(p) ==
    /\ SeqFree(p)
    /\ \E k \in TicketIds, new \in UpdateInputs :
         UpdateBody(p, k, new, "direct", TRUE)
    /\ calls' = calls + 1
    /\ UNCHANGED <<now, rollbackLog, nextId, commits>>

SeqApprove(p) ==
    /\ SeqFree(p)
    /\ \E k \in TicketIds : EndpointBody(p, k, "approve", "APPROVED", TRUE)
    /\ calls' = calls + 1
    /\ UNCHANGED <<now, rollbackLog, nextId, commits>>

SeqReject(p) ==
    /\ SeqFree(p)
    /\ \E k \in TicketIds : EndpointBody(p, k, "reject", "REJECTED", TRUE)
    /\ calls' = calls + 1
    /\ UNCHANGED <<now, rollbackLog, nextId, commits>>

SeqExecute(p) ==
    /\ SeqFree(p)
    /\ \E k \in TicketIds : ExecuteBody(p, k, "executor", TRUE)
    /\ calls' = calls + 1
    /\ UNCHANGED <<now, rollbackLog, nextId, commits>>

SeqRollback(p) ==
    /\ SeqFree(p)
    /\ \E k \in TicketIds : RollbackBody(p, k, "given", TRUE, TRUE)
    /\ calls' = calls + 1
    /\ UNCHANGED <<now, nextId, commits>>

SeqUpdCheck(p) ==
    /\ call[p].pc = "u_check"
    /\ store' = StoreAfterCheck(call[p].tid, TRUE)
    /\ Deliver(p, UpdCheckCall(call[p], TRUE))
    /\ UNCHANGED <<now, rollbackLog, nextId, commits, calls>>

SeqUpdWrite(p) ==
    /\ call[p].pc = "u_write"
    /\ store' = Setex(store, call[p].tid, TtlTicks,
                      UpdatedRequest(call[p].usnap, call[p].arg, call[p].by))
    /\ Deliver(p, UpdReturn([call[p] EXCEPT !.upd = "success"]))
    /\ UNCHANGED <<now, rollbackLog, nextId, commits, calls>>

NextSeq ==
    \E p \in Procs :
        \/ SeqCreate(p)
        \/ SeqUpdate(p)
        \/ SeqApprove(p)
        \/ SeqReject(p)
        \/ SeqExecute(p)
        \/ SeqRollback(p)
        \/ SeqUpdCheck(p)
        \/ SeqUpdWrite(p)
        \/ ExecConnect(p)
        \/ ExecStatement(p)
        \/ ExecCommit(p)
        \/ ExecRollback(p)
        \/ ExecFinally(p)

SpecSeq == Init /\ [][NextSeq]_vars

(* the number of times the stored history records a change to APPROVED *)
Approvals(req) ==
    Cardinality({i \in DOMAIN req.approval_history :
                    req.approval_history[i].new_status = "APPROVED"})

(* C35: with sequential callers, an available store and no expiry, one
   approval yields at most one commit: a ticket has never been committed
   more often than it was approved; a ticket that is APPROVED while no call
   is in flight has an approval not yet used by a commit; an execute that
   returns a committed outcome leaves the ticket EXECUTED; and an execute
   on a stored ticket whose approvals are all used fails as not approved,
   without a connection and without a commit. *)
C35_OneCommitPerApproval ==
    [][\A k \in TicketIds :
          /\ k \in DOMAIN store' =>
                /\ commits'[k] <= Approvals(store'[k].req)
                /\ (AllIdle' /\ store'[k].req.status = "APPROVED")
                      => commits'[k] < Approvals(store'[k].req)
                /\ (ret'.proc # "none" /\ ret'.c.op = "execute" /\ ret'.c.tid = k
                      /\ ret'.c.result.tx = "committed")
                      => store'[k].req.status = "EXECUTED"
          /\ \A p \in Procs :
                (k \in DOMAIN store /\ commits[k] >= Approvals(store[k].req)
                    /\ SeqExecute(p) /\ ExecuteBody(p, k, "executor", TRUE))
                   => /\ ret'.proc = p
                      /\ ret'.c.result.error_type = "not_approved"
                      /\ ret'.c.opened = 0
                      /\ commits' = commits]_vars

(* an execute has just failed as not approved on a ticket that an earlier
   execute committed and left EXECUTED *)
C35_Witness ==
    /\ ret.proc # "none"
    /\ ret.c.op = "execute"
    /\ ret.c.result.error_type = "not_approved"
    /\ ret.c.tid \in DOMAIN store
    /\ store[ret.c.tid].req.status = "EXECUTED"
    /\ commits[ret.c.tid] = 1
    /\ Approvals(store[ret.c.tid].req) = 1

(* the history h leads from PENDING_APPROVAL to status, entry by entry *)
IsChain(h, status) ==
    IF h = <<>> THEN status = "PENDING_APPROVAL"
    ELSE /\ h[1].old_status = "PENDING_APPROVAL"
         /\ \A i \in 2..Len(h) : h[i].old_status = h[i - 1].new_status
         /\ h[Len(h)].new_status = status

(* C36: under any interleaving of writers, each stored ticket's history is a
   consistent chain: it is empty exactly when the record carries no update
   (no update timestamp), and then the status is PENDING_APPROVAL; otherwise
   it starts at PENDING_APPROVAL, each entry starts where the previous one
   ended, and the last entry ends at the ticket's current status. *)
C36_HistoryIsChain ==
    \A k \in DOMAIN store :
        /\ (store[k].req.approval_history = <<>>) <=> (store[k].req.updated_at = -1)
        /\ IsChain(store[k].req.approval_history, store[k].req.status)

(* a ticket updated twice is stored while a third writer still holds the
   record as it was created *)
C36_Witness ==
    \E k \in DOMAIN store, p \in Procs :
        /\ Len(store[k].req.approval_history) = 2
        /\ call[p].pc = "u_write"
        /\ call[p].tid = k
        /\ call[p].usnap.approval_history = <<>>

(* the parts of a stored ticket that create_approval_request fixes *)
Fixed(r) ==
    [ticket_id |-> r.ticket_id, sql_query |-> r.sql_query,
     impact_analysis |-> r.impact_analysis, requester_info |-> r.requester_info,
     created_at |-> r.created_at, expires_at |-> r.expires_at]

(* C37: no step changes the ticket id, statement, impact snapshot, requester
   info, creation time or expiry time of a stored ticket, and a record
   written back under an id that is no longer stored carries those parts
   as its writer read them; create stores the statement it was passed; and
   the statement an execute call runs is the one stored for the ticket, which
   for a workflow run is the statement the run passed to create. *)
C37_FixedParts ==
    [][/\ \A k \in DOMAIN store' :
             IF k \in DOMAIN store
             THEN Fixed(store'[k].req) = Fixed(store[k].req)
             ELSE \/ k = FreshId /\ nextId' = FreshId
                  \/ \E p \in Procs :
                        /\ call[p].pc = "u_write"
                        /\ call[p].tid = k
                        /\ Fixed(store'[k].req) = Fixed(JsonDumps(call[p].usnap))
       /\ \A p \in Procs :
             /\ \A sql \in IF wf[p].flow = "none" THEN SqlInputs
                            ELSE {wf[p].sql_query} :
                   (/\ nextId' # nextId
                    /\ \E impact \in IF wf[p].flow = "none" THEN ImpactInputs
                                     ELSE {ImpactOf(wf[p])} :
                         CreateBody(p, sql, impact,
                                    IF wf[p].flow = "none" THEN "user"
                                    ELSE wf[p].flow, TRUE))
                      => /\ JsonLoads(store'[FreshId].req).sql_query = sql
                         /\ JsonLoads(store'[FreshId].req).ticket_id = FreshId
             /\ call[p].pc = "x_statement" =>
                   /\ call[p].tid \in DOMAIN store
                         => call[p].snap.sql_query = Get(call[p].tid).sql_query
                   /\ (wf[p].flow # "none" /\ wf[p].ticket = call[p].tid)
                         => call[p].snap.sql_query = wf[p].sql_query]_vars

(* a run has just executed the statement it passed to create, on a ticket
   that was approved and is now stored EXECUTED *)
C37_Witness ==
    /\ ret.proc = Runner
    /\ ret.c.op = "execute"
    /\ ret.c.result.tx = "committed"
    /\ wf[Runner].flow # "none"
    /\ wf[Runner].ticket = ret.c.tid
    /\ ret.c.snap.sql_query = wf[Runner].sql_query
    /\ ret.c.tid \in DOMAIN store
    /\ store[ret.c.tid].req.status = "EXECUTED"
    /\ Len(store[ret.c.tid].req.approval_history) = 2
    /\ commits[ret.c.tid] = 1

---------------------------------------------------------------------------
(* _classify_risk on its own: any row estimate, any statement kind, any list
   of target tables *)

ClassifyKinds == StatementKinds \cup {"UNKNOWN"}

ClassifyTables ==
    {<<>>, <<TableItems>>, <<TableUsers>>, <<TableUsers, TableItems>>,
     <<TableUsers, TableUsers>>}

ClassifyRows == {UnknownRows} \cup {Rows(n) : n \in 0..MaxPlanRows}

InitClassify ==
    /\ now = 0
    /\ store = EmptyStore
    /\ rollbackLog = {}
    /\ nextId = 0
    /\ commits = [t \in IssuableIds |-> 0]
    /\ calls = 0
    /\ call = [p \in Procs |-> IdleCall]
    /\ ret = NoRet
    /\ wf = [p \in Procs |-> NoRun]
    /\ \E rows \in ClassifyRows, kind \in ClassifyKinds,
          tables \in ClassifyTables :
         analysis = [phase |-> "estimate", estimated_rows |-> rows,
                     query_type |-> kind, affected_tables |-> tables,
                     risk_classification |-> NoClassification]

ClassifyRiskStep ==
    /\ analysis.phase = "estimate"
    /\ analysis' = [analysis EXCEPT
                      !.phase = "classified",
                      !.risk_classification =
                          ClassifyRisk(analysis.estimated_rows,
                                       analysis.query_type,
                                       analysis.affected_tables)]
    /\ UNCHANGED <<now, store, rollbackLog, nextId, commits, calls, call, ret, wf>>

NextClassify == ClassifyRiskStep

SpecClassify == InitClassify /\ [][NextClassify]_vars

(* C38: when the row count is unknown the classification requires approval,
   whatever the statement kind and the target tables: the score is at least
   70 and the level HIGH or CRITICAL; the lowest case is an INSERT on no
   critical table, base 75 less 5, which scores exactly 70. *)
C38_UnknownRowsNeedApproval ==
    (analysis.phase = "classified" /\ analysis.estimated_rows.str) =>
        /\ analysis.risk_classification.score >= 70
        /\ analysis.risk_classification.level \in {"HIGH", "CRITICAL"}
        /\ analysis.risk_classification.requires_approval
        /\ (analysis.query_type = "INSERT"
              /\ TableAdjustment(analysis.affected_tables) = 0)
              => analysis.risk_classification.score = 70

(* an INSERT into a table that is not critical, with an unknown row count,
   has been classified HIGH at score 70 *)
C38_Witness ==
    /\ analysis.phase = "classified"
    /\ analysis.estimated_rows = UnknownRows
    /\ analysis.query_type = "INSERT"
    /\ analysis.affected_tables = <<TableItems>>
    /\ analysis.risk_classification.score = 70
    /\ analysis.risk_classification.level = "HIGH"
    /\ analysis.risk_classification.requires_approval

(* C39: a rollback result reports ticket_updated = true only if that call
   changed the stored status to ROLLBACK_REQUESTED: not for a missing or
   expired ticket, and not when the store did not take the write. *)
C39_TicketUpdatedOnlyIfChanged ==
    (ret.proc # "none" /\ ret.c.op = "rollback" /\ ret.c.result.status = "logged")
        => (ret.c.result.ticket_updated
              => /\ ret.c.upd = "success"
                 /\ ret.c.tid \in DOMAIN store
                 /\ store[ret.c.tid].req.status = "ROLLBACK_REQUESTED")

====
